---- MODULE Spec2Model ----
(***************************************************************************)
(* Session-state synchronisation of the chat client: the ChatProvider      *)
(* component (src/features/chat/ChatContext.tsx and its older sibling      *)
(* src/contexts/ChatContext.tsx) on top of StorageManager                  *)
(* (src/utils/storage.ts).                                                 *)
(*                                                                         *)
(* React semantics.  `state` holds the values of the useState hooks.  A    *)
(* handler reads chatSessions, currentSession, activeModel, isLoading,     *)
(* isConnected and providers from the closure c of the render that created *)
(* it, for its whole run, also after an await; a setter called with a      *)
(* value writes `state`, a                                                 *)
(* setter called with a function (prev => ...) maps the latest `state`.    *)
(* React commits a render before the next outside call, so a handler       *)
(* called from outside is created in the latest state: its closure is      *)
(* `state` at the call.  A handler that calls another handler calls the    *)
(* one of its own render (same closure), and a send that awaits the        *)
(* provider carries its closure in `sends` until it settles.               *)
(*                                                                         *)
(* Scheduling.  StorageManager runs on localStorage (Platform.OS = web):   *)
(* getItem and setItem are async functions with synchronous bodies, so a   *)
(* handler suspends to other handlers only at a network await              *)
(* (APIManager.sendMessage, APIManager.sendMessageStream).  Several        *)
(* saveChatSession calls started together (Promise.all) all read the       *)
(* store when they are called and write it afterwards in call order.       *)
(*                                                                         *)
(* Representation.  Ids are the numbers Date.now() returns (toString is    *)
(* injective).  A text is the sequence of its space-separated words.       *)
(* An optional value is a sequence of length 0 (null) or 1.  Array         *)
(* indices are 1-based; findIndex returns 0 where JavaScript returns -1.   *)
(* A Date is the instant it denotes, in milliseconds; the store holds it   *)
(* as the ISO string toJSON writes.                                        *)
(*                                                                         *)
(* Besides the provider component, StorageManager is driven directly       *)
(* (SpecStorage, SpecCorrupt) and so are APIManager in src/utils/api.ts    *)
(* (SpecAPI: configuration, requests, classification of errors) and its    *)
(* streamed send with the NDJSON decode loop (SpecStream).                 *)
(***************************************************************************)
EXTENDS Integers, Sequences, FiniteSets, TLC

\* ---------------------------------------------------------------- bounds
\* the clock stops at MaxNow
MaxNow == 2
\* sessions in the list, and messages in a session, where sessions are
\* created and switched (SpecSessions)
MaxSessions == 2
MaxSessionMessages == 2
\* messages in the session and tokens of a stream, where messages are sent
\* and regenerated (SpecSend)
MaxMessages == 4
MaxChunks == 1
\* sends awaiting the provider, and messages in the session, where a send
\* is called again before the first has settled (SpecResend)
MaxSends == 2
MaxResendMessages == 2
\* messages in the session where a session is renamed while a send awaits
\* the provider (SpecTitle)
MaxTitleMessages == 4
\* session ids, and sessions in the store, where StorageManager is called
\* directly (SpecStorage, SpecCorrupt)
MaxStoreIds == 3
MaxStored == 2
\* lines in the body of a streamed response (SpecStream)
MaxLines == 2
\* clock values and sessions where sessions are deleted (SpecDelete)
MaxDeleteNow == 3
MaxDeleteSessions == 3
\* messages of the session a send is made in, where the request payload is
\* built (SpecPayload)
MaxPriorMessages == 21

\* ------------------------------------------------------------ basic data
Null == <<>>
Some(x) == <<x>>
Get(o) == o[1]

Variants == {"features", "contexts"}

Texts == {<<"Hi">>}
Responses == {<<"ok">>}
Tokens == {"tok"}
Titles == {<<"Renamed">>}
ErrorText == <<"Failed">>
NewChatTitle == <<"New", "Chat">>

Min(a, b) == IF a < b THEN a ELSE b

deactivate(s) == [s EXCEPT !.isActive = FALSE]

deactivateAll(sessions) == [i \in 1..Len(sessions) |-> deactivate(sessions[i])]

Last(s) == s[Len(s)]

\* seq.findIndex(x => x.id === id), 1-based, 0 when absent
findIndex(s, id) ==
  IF \E i \in 1..Len(s) : s[i].id = id
    THEN CHOOSE i \in 1..Len(s) : s[i].id = id /\ \A j \in 1..(i - 1) : s[j].id # id
    ELSE 0

\* seq.find(x => x.id === id) as an optional value
find(s, id) == IF findIndex(s, id) = 0 THEN Null ELSE Some(s[findIndex(s, id)])

\* the model list APIManager.getProviders resolves to
Model1 == [id |-> "ollama-llama2", name |-> "llama2", isActive |-> FALSE]
ProvidersData == <<[type |-> "ollama", models |-> <<Model1>>]>>

\* a Date is the instant it denotes, in milliseconds, or Invalid Date
Date(ms) == [valid |-> TRUE, time |-> ms]
InvalidDate == [valid |-> FALSE, time |-> 0]

\* a message made at time t (timestamp: new Date())
Message(id, t, text, sender, error) ==
  [id |-> id, text |-> text, sender |-> sender, timestamp |-> Date(t), error |-> error]

\* ------------------------------------------------------- StorageManager
\* localStorage: each key is absent (Null) or holds a JSON text.  A JSON
\* text is modelled by whether JSON.parse accepts it (ok), whether it
\* parses to an array (array) and the value it parses to (val).  In a
\* parsed value a string that Date.prototype.toISOString wrote is
\* [json |-> "string", iso |-> ms], null is [json |-> "null"], and a
\* property that is undefined is not in the record.
JSONstringify(v) == [ok |-> TRUE, array |-> FALSE, val |-> v]

\* toJSON writing the instant to the second
toJSON_seconds(date) ==
  IF date.valid THEN [json |-> "string", iso |-> date.time - (date.time % 1000)]
  ELSE [json |-> "null"]

\* Date.prototype.toJSON: the ISO string, to the millisecond; null for
\* Invalid Date
toJSON(date) ==
  IF date.valid THEN [json |-> "string", iso |-> date.time] ELSE [json |-> "null"]

\* new Date(o[f]) for a parsed object o: undefined gives Invalid Date, null
\* the epoch, an ISO string its instant
newDate(o, f) ==
  IF f \notin DOMAIN o THEN InvalidDate
  ELSE IF o[f].json = "null" THEN Date(0)
  ELSE Date(o[f].iso)

messageToJSON(msg) ==
  [f \in DOMAIN msg |-> IF f = "timestamp" THEN toJSON(msg[f]) ELSE msg[f]]

sessionToJSON(session) ==
  [f \in DOMAIN session |->
     IF f \in {"createdAt", "updatedAt"} THEN toJSON(session[f])
     ELSE IF f = "messages"
       THEN [i \in 1..Len(session.messages) |-> messageToJSON(session.messages[i])]
     ELSE session[f]]

\* JSON.stringify(sessions)
JSONstringifySessions(sessions) ==
  [ok |-> TRUE, array |-> TRUE,
   val |-> [i \in 1..Len(sessions) |-> sessionToJSON(sessions[i])]]

getItem(ls, key) == ls[key]

\* writes, in a store that has it, counts the calls of localStorage.setItem
setItem(ls, key, value) ==
  IF "writes" \in DOMAIN ls
    THEN [ls EXCEPT ![key] = Some(value), !.writes = @ + 1]
    ELSE [ls EXCEPT ![key] = Some(value)]

removeItem(ls, key) == [ls EXCEPT ![key] = Null]

normalizeMessage(msg) ==
  [f \in DOMAIN msg \cup {"timestamp"} |->
     IF f = "timestamp" THEN newDate(msg, "timestamp") ELSE msg[f]]

\* the object sessions.map builds of a parsed session
normalizeSession(session) ==
  [f \in DOMAIN session \cup {"createdAt", "updatedAt", "isActive"} |->
     IF f \in {"createdAt", "updatedAt"} THEN newDate(session, f)
     ELSE IF f = "isActive"
       \* session.isActive ?? false
       THEN IF "isActive" \in DOMAIN session THEN session.isActive ELSE FALSE
     ELSE IF f = "messages"
       THEN [i \in 1..Len(session.messages) |-> normalizeMessage(session.messages[i])]
     ELSE session[f]]

\* session.messages.map throws a TypeError for an item that has no messages
\* array (an object without one, null, a number)
normalizeThrows(session) == "messages" \notin DOMAIN session

getChatSessions(ls) ==
  LET sessionsData == getItem(ls, "chat_sessions") IN
  IF sessionsData = Null THEN <<>>
  \* JSON.parse throws; sessions.map is not a function; the callback throws
  ELSE IF ~Get(sessionsData).ok THEN <<>>
  ELSE IF ~Get(sessionsData).array THEN <<>>
  ELSE LET sessions == Get(sessionsData).val IN
       IF \E i \in 1..Len(sessions) : normalizeThrows(sessions[i]) THEN <<>>
       ELSE [i \in 1..Len(sessions) |-> normalizeSession(sessions[i])]

\* upsertSession without the findIndex: always unshift
upsertSession_unshift(sessions, session) == <<session>> \o sessions

\* upsertSession with push in place of unshift
upsertSession_push(sessions, session) ==
  LET existingIndex == findIndex(sessions, session.id) IN
  IF existingIndex >= 1
    THEN [sessions EXCEPT ![existingIndex] = session]
    ELSE Append(sessions, session)

\* the array saveChatSession builds from the sessions it has read
upsertSession(sessions, session) ==
  LET existingIndex == findIndex(sessions, session.id) IN
  IF existingIndex >= 1
    THEN [sessions EXCEPT ![existingIndex] = session]
    ELSE <<session>> \o sessions

\* the write that ends a saveChatSession which read `sessions` at its call
saveWrite(ls, sessions, session) ==
  setItem(ls, "chat_sessions", JSONstringifySessions(upsertSession(sessions, session)))

\* one awaited saveChatSession
saveChatSession(ls, session) == saveWrite(ls, getChatSessions(ls), session)

RECURSIVE writeAll(_, _, _)
writeAll(ls, sessions, batch) ==
  IF batch = <<>> THEN ls
  ELSE writeAll(saveWrite(ls, sessions, Head(batch)), sessions, Tail(batch))

\* await Promise.all(batch.map(s => StorageManager.saveChatSession(s))):
\* every call reads the store when it is called, the writes follow in order
PromiseAllSave(ls, batch) == writeAll(ls, getChatSessions(ls), batch)

\* sessions.splice(sessions.findIndex(...), 1) in place of the filter: an
\* index of -1 removes the last session
deleteChatSession_splice(ls, sessionId) ==
  LET sessions == getChatSessions(ls)
      k == findIndex(sessions, sessionId)
  IN setItem(ls, "chat_sessions",
             JSONstringifySessions(
               IF k = 0 THEN SubSeq(sessions, 1, Len(sessions) - 1)
               ELSE SubSeq(sessions, 1, k - 1) \o SubSeq(sessions, k + 1, Len(sessions))))

deleteChatSession(ls, sessionId) ==
  setItem(ls, "chat_sessions",
          JSONstringifySessions(SelectSeq(getChatSessions(ls), LAMBDA s : s.id # sessionId)))

\* one deleteChatSession, and so one write, for each id
deleteMultipleChatSessions_eachId(ls, sessionIds) ==
  IF sessionIds = {} THEN setItem(ls, "chat_sessions", JSONstringifySessions(getChatSessions(ls)))
  ELSE LET RECURSIVE each(_, _)
           each(l, ids) ==
             IF ids = {} THEN l
             ELSE LET id == CHOOSE x \in ids : TRUE IN each(deleteChatSession(l, id), ids \ {id})
       IN each(ls, sessionIds)

\* sessionIds is the set of the ids in the array: the filter only asks
\* sessionIds.includes(s.id)
deleteMultipleChatSessions(ls, sessionIds) ==
  setItem(ls, "chat_sessions",
          JSONstringifySessions(
            SelectSeq(getChatSessions(ls), LAMBDA s : s.id \notin sessionIds)))

setActiveModelStore(ls, model) == setItem(ls, "active_model", JSONstringify(model))

getActiveModel(ls) ==
  LET modelData == getItem(ls, "active_model") IN
  IF modelData = Null THEN Null
  ELSE IF ~Get(modelData).ok THEN Null
  ELSE Some(Get(modelData).val)

\* ------------------------------------------------------------ APIManager
\* An error is its message, a sequence of pieces of text.  The pieces are
\* cut so that each text the code looks for with includes() is a piece of
\* its own wherever it occurs, so includes is membership.  Endpoints and
\* keys are taken from small sets, and the string functions applied to
\* them are given by their values on these sets.
includes(message, searchString) ==
  \E i \in 1..Len(message) : message[i] = searchString

ApiProviders == {"ollama", "openai", "anthropic"}

\* two URLs (the second the default endpoint), a URL of another scheme, an
\* http:// prefix with no host, a text with no scheme
DefaultEndpoint == "http://localhost:11434"
Endpoints == {"https://h", DefaultEndpoint, "ftp://h", "http://", "h"}

\* no key, a blank key, a key, a key of the form Anthropic issues
ApiKeys == {"", " ", "sk-1", "sk-ant-1"}

\* where the app runs: Platform.OS and, in a browser, the page's protocol
Environments ==
  {[OS |-> "web", protocol |-> "http:"], [OS |-> "web", protocol |-> "https:"],
   [OS |-> "ios", protocol |-> ""]}

\* String.prototype.startsWith, for the two prefixes the code tests
startsWith(text, searchString) ==
  \/ searchString = "http://" /\ text \in {DefaultEndpoint, "http://"}
  \/ searchString = "sk-ant-" /\ text = "sk-ant-1"

\* String.prototype.trim on a key
trimKey(apiKey) == IF apiKey = " " THEN "" ELSE apiKey

toUpperCase(provider) ==
  CASE provider = "ollama" -> "OLLAMA"
    [] provider = "openai" -> "OPENAI"
    [] provider = "anthropic" -> "ANTHROPIC"

\* how a call ends: it throws error or returns value, having called fetch
\* requests times
Throw(error, requests) ==
  [raised |-> TRUE, error |-> error, value |-> Null, requests |-> requests]

Return(value, requests) ==
  [raised |-> FALSE, error |-> <<>>, value |-> Some(value), requests |-> requests]

\* new URL(url) parses and its protocol is http: or https:
validateEndpointURL(url) == url \in {"https://h", DefaultEndpoint}

isHTTPSRequired(env) == env.OS = "web" /\ env.protocol = "https:"

DefaultSettings == [apiProvider |-> "ollama", endpoint |-> DefaultEndpoint, apiKey |-> ""]

\* the stored settings over the defaults; the defaults when nothing is
\* stored or the text does not parse
getSettings(ls) ==
  LET settingsData == getItem(ls, "app_settings") IN
  IF settingsData = Null THEN DefaultSettings
  ELSE IF ~Get(settingsData).ok THEN DefaultSettings
  ELSE LET parsed == Get(settingsData).val IN
       [f \in DOMAIN DefaultSettings |->
          IF f \in DOMAIN parsed THEN parsed[f] ELSE DefaultSettings[f]]

InvalidEndpointURL(endpoint) == <<"Invalid endpoint URL: ", endpoint>>
MIXED_CONTENT_ERROR == <<"MIXED_CONTENT_ERROR">>
ApiKeyRequired(provider) == <<"API key is required for ", toUpperCase(provider)>>

\* createAPIConfig with the credential check before the endpoint checks
createAPIConfig_keyFirst(settings, env) ==
  IF settings.apiProvider # "ollama" /\ trimKey(settings.apiKey) = ""
    THEN Throw(ApiKeyRequired(settings.apiProvider), 0)
  ELSE IF ~validateEndpointURL(settings.endpoint)
    THEN Throw(InvalidEndpointURL(settings.endpoint), 0)
  ELSE IF isHTTPSRequired(env) /\ startsWith(settings.endpoint, "http://")
    THEN Throw(MIXED_CONTENT_ERROR, 0)
  ELSE Return([provider |-> settings.apiProvider, endpoint |-> settings.endpoint,
               apiKey |-> IF settings.apiProvider # "ollama"
                            THEN Some(settings.apiKey) ELSE Null], 0)

\* createAPIConfig that leaves the credential to the provider
createAPIConfig_noKeyCheck(settings, env) ==
  IF ~validateEndpointURL(settings.endpoint)
    THEN Throw(InvalidEndpointURL(settings.endpoint), 0)
  ELSE IF isHTTPSRequired(env) /\ startsWith(settings.endpoint, "http://")
    THEN Throw(MIXED_CONTENT_ERROR, 0)
  ELSE Return([provider |-> settings.apiProvider, endpoint |-> settings.endpoint,
               apiKey |-> IF settings.apiProvider # "ollama"
                            THEN Some(settings.apiKey) ELSE Null], 0)

createAPIConfig(settings, env) ==
  IF ~validateEndpointURL(settings.endpoint)
    THEN Throw(InvalidEndpointURL(settings.endpoint), 0)
  ELSE IF isHTTPSRequired(env) /\ startsWith(settings.endpoint, "http://")
    THEN Throw(MIXED_CONTENT_ERROR, 0)
  ELSE IF settings.apiProvider # "ollama" /\ trimKey(settings.apiKey) = ""
    THEN Throw(ApiKeyRequired(settings.apiProvider), 0)
  ELSE Return([provider |-> settings.apiProvider, endpoint |-> settings.endpoint,
               apiKey |-> IF settings.apiProvider # "ollama"
                            THEN Some(settings.apiKey) ELSE Null], 0)

\* What the network does to a request: the timeout aborts it, fetch
\* rejects with a TypeError, or a response arrives.  A response has a
\* status, its reason phrase, a body stream or none, and the body read as
\* JSON: Null when it is not JSON, else an object with error.message or
\* not, with the provider's array (models, choices, content) missing,
\* empty or of one item, and with the provider's text (response,
\* message.content, text) or not.
Statuses == {200, 401, 404, 429, 500, 502, 503, 504}

statusText(status) ==
  CASE status = 200 -> "OK"
    [] status = 401 -> "Unauthorized"
    [] status = 404 -> "Not Found"
    [] status = 429 -> "Too Many Requests"
    [] status = 500 -> "Internal Server Error"
    [] status = 502 -> "Bad Gateway"
    [] status = 503 -> "Service Unavailable"
    [] status = 504 -> "Gateway Timeout"

Data(error, items, text) == [error |-> error, items |-> items, text |-> text]

\* bodies of a response that is not ok, and of one that is
ErrorDatas == {Data(Some("overloaded"), "missing", Null), Data(Null, "missing", Null)}

Datas ==
  {Data(Null, "missing", Null), Data(Null, "empty", Null), Data(Null, "one", Null),
   Data(Null, "one", Some("ok")), Data(Null, "missing", Some("ok"))}

HTTPResponse(status, body, json) ==
  [status |-> status, statusText |-> statusText(status), body |-> body, json |-> json]

HTTPResponses ==
  {HTTPResponse(status, TRUE, json) :
     status \in Statuses \ {200}, json \in {Null} \cup {Some(data) : data \in ErrorDatas}}
  \cup {HTTPResponse(200, TRUE, json) : json \in {Null} \cup {Some(data) : data \in Datas}}
  \cup {HTTPResponse(200, FALSE, Null)}

Nets ==
  {[kind |-> "abort"]}
  \cup {[kind |-> "TypeError", message |-> m] :
           m \in {<<"Failed to fetch">>, <<"Network", " request failed">>}}
  \cup {[kind |-> "response", response |-> response] : response \in HTTPResponses}

responseOk(response) == response.status \in 200..299

\* response.text()
bodyText(response) ==
  IF response.json = Null THEN <<"<html>">>
  ELSE IF Get(response.json).error = Null THEN <<"{}">>
  ELSE <<"{error:{message:", Get(Get(response.json).error), "}}">>

SyntaxError == <<"Unexpected token < in JSON">>

makeAPIRequest(config, env, net) ==
  IF net.kind = "response" THEN Return(net.response, 1)
  ELSE IF net.kind = "abort"
    THEN Throw(<<"Request timeout - please check your connection and try again">>, 1)
  ELSE IF env.OS = "web" /\ config.provider = "ollama"
    THEN IF includes(net.message, "Failed to fetch")
           THEN Throw(<<"CORS_ERROR">>, 1)
           ELSE Throw(net.message, 1)
  ELSE IF includes(net.message, "Failed to fetch")
    THEN IF env.OS = "web"
           THEN Throw(<<"CORS_ERROR",
                        ": Your browser blocked this request due to CORS. To fix, set OLLAMA_ORIGINS on your Ollama server and restart it.">>, 1)
           ELSE Throw(<<"Cannot connect to server - please check the endpoint URL and network connectivity">>, 1)
  ELSE Throw(net.message, 1)

NoResponseReceived == "No response received"

sendOllamaMessage(config, env, net) ==
  LET r == makeAPIRequest(config, env, net)
      response == Get(r.value)
      tried ==
        IF r.raised THEN r
        ELSE IF ~responseOk(response)
          THEN IF response.status = 404 THEN Throw(<<"Model not found on Ollama server - please ensure the model is installed">>, 1)
               ELSE IF response.status >= 500 THEN Throw(<<"Ollama server error - please check server status">>, 1)
               ELSE Throw(<<"Ollama API error: ", ToString(response.status), " ",
                            response.statusText, " - ">> \o bodyText(response), 1)
        ELSE IF response.json = Null THEN Throw(SyntaxError, 1)
        ELSE Return(IF Get(response.json).text # Null
                      THEN Get(Get(response.json).text) ELSE NoResponseReceived, 1)
  IN IF tried.raised /\ includes(tried.error, "CORS_ERROR")
       THEN Throw(<<"CORS configuration required. Please configure CORS on your Ollama server or use HTTPS.">>, 1)
       ELSE tried

\* the error of a hosted provider's response that is not ok
apiError(name, response) ==
  <<name, ToString(response.status)>>
  \o (IF response.json = Null THEN <<" ", response.statusText>>
      ELSE IF Get(response.json).error # Null
        THEN <<" - ", Get(Get(response.json).error)>>
      ELSE <<>>)

\* data.choices[0]?.message?.content || ..., data.content[0]?.text || ...
firstItemText(response) ==
  LET data == Get(response.json) IN
  IF data.items = "missing" THEN Throw(<<"Cannot read properties of undefined (reading '0')">>, 1)
  ELSE IF data.items = "one" /\ data.text # Null THEN Return(Get(data.text), 1)
  ELSE Return(NoResponseReceived, 1)

sendHostedMessage(name, config, env, net) ==
  LET r == makeAPIRequest(config, env, net)
      response == Get(r.value)
  IN IF r.raised THEN r
     ELSE IF ~responseOk(response) THEN Throw(apiError(name, response), 1)
     ELSE IF response.json = Null THEN Throw(SyntaxError, 1)
     ELSE firstItemText(response)

sendOpenAIMessage(config, env, net) ==
  sendHostedMessage("OpenAI API error: ", config, env, net)

sendAnthropicMessage(config, env, net) ==
  sendHostedMessage("Anthropic API error: ", config, env, net)

InvalidApiKey ==
  <<"Invalid API key. Please check your API key in the connection settings and ensure it's correct.">>
RateLimitExceeded ==
  <<"Rate limit exceeded. Please wait a moment before sending another message.">>
QuotaExceeded ==
  <<"API ", "quota", " exceeded or ", "billing", " issue. Please check your account status.">>
NetworkConnectionFailed ==
  <<"Network", " connection failed. Please check your internet connection and try again.">>
ServerTemporarilyUnavailable ==
  <<"Server temporarily unavailable. Please try again in a few moments.">>
FailedToSendMessage(error) == <<"Failed to send message: ">> \o error

\* the catch block of sendMessage
classify(error) ==
  IF includes(error, "401") \/ includes(error, "Incorrect API key") THEN InvalidApiKey
  ELSE IF includes(error, "429") \/ includes(error, "rate limit") THEN RateLimitExceeded
  ELSE IF includes(error, "quota") \/ includes(error, "billing") THEN QuotaExceeded
  ELSE IF includes(error, "Failed to fetch") \/ includes(error, "Network")
    THEN NetworkConnectionFailed
  ELSE IF includes(error, "500") \/ includes(error, "502") \/ includes(error, "503")
    THEN ServerTemporarilyUnavailable
  ELSE FailedToSendMessage(error)

APIManager_sendMessage(ls, env, net) ==
  LET settings == getSettings(ls)
      made == createAPIConfig(settings, env)
      config == Get(made.value)
      r == IF made.raised THEN made
           ELSE IF config.provider = "openai" THEN sendOpenAIMessage(config, env, net)
           ELSE IF config.provider = "anthropic" THEN sendAnthropicMessage(config, env, net)
           ELSE sendOllamaMessage(config, env, net)
  IN IF r.raised THEN Throw(classify(r.error), r.requests) ELSE r

StreamingNotSupported == <<"Streaming not supported in this environment">>

\* sendOllamaMessageStream reading the body whatever the status
openOllamaMessageStream_anyStatus(config, env, net) ==
  LET r == makeAPIRequest(config, env, net)
      response == Get(r.value)
  IN IF r.raised THEN r
     ELSE IF ~response.body THEN Throw(StreamingNotSupported, 1)
     ELSE Return("reader", 1)

\* sendOllamaMessageStream up to the decode loop: the request, the status
\* test and getReader
openOllamaMessageStream(config, env, net) ==
  LET r == makeAPIRequest(config, env, net)
      response == Get(r.value)
  IN IF r.raised THEN r
     ELSE IF ~responseOk(response)
       THEN Throw(<<"Ollama streaming error: ", ToString(response.status), " ",
                    response.statusText>>, 1)
     ELSE IF ~response.body THEN Throw(StreamingNotSupported, 1)
     ELSE Return("reader", 1)

\* sendMessageStream up to the decode loop
APIManager_sendMessageStream(ls, env, net) ==
  LET settings == getSettings(ls)
      made == createAPIConfig(settings, env)
      config == Get(made.value)
  IN IF made.raised THEN made
     ELSE IF config.provider = "ollama" THEN openOllamaMessageStream(config, env, net)
     ELSE Throw(<<"Streaming is only supported for Ollama in this app.">>, 0)

getOllamaModels(config, env, net) ==
  LET r == makeAPIRequest(config, env, net)
      response == Get(r.value)
  IN IF r.raised THEN r
     ELSE IF ~responseOk(response)
       THEN IF response.status = 404 THEN Throw(<<"Ollama API endpoint not found - please verify the server URL">>, 1)
            ELSE IF response.status >= 500 THEN Throw(<<"Ollama server error - please check if the server is running properly">>, 1)
            ELSE Throw(<<"Ollama API error: ", ToString(response.status), " ",
                         response.statusText>>, 1)
     ELSE IF response.json = Null THEN Throw(SyntaxError, 1)
     ELSE IF Get(response.json).items = "missing" THEN Throw(<<"Invalid response format from Ollama server - expected models array">>, 1)
     ELSE IF Get(response.json).items = "empty" THEN Throw(<<"No models available from this provider">>, 1)
     ELSE Return(<<Model1>>, 1)

getOpenAIModels == <<[id |-> "openai-gpt-4o", name |-> "gpt-4o", isActive |-> FALSE]>>
getAnthropicModels ==
  <<[id |-> "anthropic-claude-3-5-sonnet", name |-> "claude-3-5-sonnet-20241022",
    isActive |-> FALSE]>>

getProviders(ls, env, net) ==
  LET settings == getSettings(ls)
      made == createAPIConfig(settings, env)
      config == Get(made.value)
      models == getOllamaModels(config, env, net)
  IN IF made.raised THEN made
     ELSE IF config.provider = "ollama"
       THEN IF models.raised THEN models
            ELSE Return(<<[type |-> "ollama", models |-> Get(models.value)]>>, models.requests)
     ELSE IF config.provider = "openai"
       THEN Return(<<[type |-> "openai", models |-> getOpenAIModels]>>, 0)
     ELSE Return(<<[type |-> "anthropic", models |-> getAnthropicModels]>>, 0)

InvalidOpenAIKey == <<"Invalid API key provided. Please check your OpenAI API key.">>

testOpenAIConnection(config, env, net) ==
  LET r == makeAPIRequest(config, env, net)
      response == Get(r.value)
      tried ==
        IF r.raised THEN r
        ELSE IF ~responseOk(response)
          THEN IF response.status = 401 THEN Throw(InvalidOpenAIKey, 1)
               ELSE Throw(<<"OpenAI API test failed: ", ToString(response.status), " ",
                            response.statusText>>, 1)
        ELSE Return("void", 1)
  IN IF tried.raised /\ includes(tried.error, "401")
       THEN Throw(InvalidOpenAIKey, 1)
       ELSE tried

InvalidAnthropicKeyFormat ==
  <<"Invalid Anthropic API key format. API keys should start with sk-ant-">>

\* testAnthropicConnection that accepts any key
testAnthropicConnection_anyKey(config) ==
  IF config.apiKey = Null THEN Throw(InvalidAnthropicKeyFormat, 0)
  ELSE Return("void", 0)

testAnthropicConnection(config) ==
  IF config.apiKey = Null THEN Throw(InvalidAnthropicKeyFormat, 0)
  ELSE IF Get(config.apiKey) = "" \/ ~startsWith(Get(config.apiKey), "sk-ant-")
    THEN Throw(InvalidAnthropicKeyFormat, 0)
  ELSE Return("void", 0)

InvalidEndpointURLFormat == <<"Invalid endpoint URL format">>

Success(models) == [success |-> TRUE, models |-> models]
Failure(error) == [success |-> FALSE, error |-> error]

\* apiKey is optional
testConnection(provider, endpoint, apiKey, env, net) ==
  LET config == [provider |-> provider, endpoint |-> endpoint, apiKey |-> apiKey]
      blank == IF apiKey = Null THEN TRUE ELSE trimKey(Get(apiKey)) = ""
      tried ==
        IF ~validateEndpointURL(endpoint) THEN Throw(InvalidEndpointURLFormat, 0)
        ELSE IF isHTTPSRequired(env) /\ startsWith(endpoint, "http://")
          THEN Throw(MIXED_CONTENT_ERROR, 0)
        ELSE IF provider # "ollama" /\ blank THEN Throw(ApiKeyRequired(provider), 0)
        ELSE IF provider = "ollama" THEN getOllamaModels(config, env, net)
        ELSE IF provider = "openai"
          THEN LET tested == testOpenAIConnection(config, env, net) IN
               IF tested.raised THEN tested ELSE Return(getOpenAIModels, tested.requests)
        ELSE LET tested == testAnthropicConnection(config) IN
             IF tested.raised THEN tested ELSE Return(getAnthropicModels, tested.requests)
  IN IF tried.raised THEN Return(Failure(tried.error), tried.requests)
     ELSE Return(Success(Get(tried.value)), tried.requests)

\* history.slice(-n)
slice(history, n) == SubSeq(history, Len(history) - Min(n, Len(history)) + 1, Len(history))

\* the prompt as its lines: a line is who speaks and the text after the
\* colon; the last line, "Assistant: ", is left open
buildPrompt(message, history) ==
  LET recent == slice(history, 10) IN
  [i \in 1..Len(recent) |->
     [role |-> IF recent[i].sender = "user" THEN "Human" ELSE "Assistant",
      content |-> recent[i].text]]
    \o <<[role |-> "Human", content |-> message], [role |-> "Assistant", content |-> <<>>]>>

buildAnthropicMessages(message, history) ==
  LET recent == slice(history, 20) IN
  [i \in 1..Len(recent) |->
     [role |-> IF recent[i].sender = "user" THEN "user" ELSE "assistant",
      content |-> recent[i].text]]
    \o <<[role |-> "user", content |-> message]>>

buildOpenAIMessages(message, history) ==
  <<[role |-> "system", content |-> <<"You", "are", "a", "helpful", "AI", "assistant.">>]>>
    \o buildAnthropicMessages(message, history)

\* the turns of the request body sendMessage / sendMessageStream posts
requestTurns(provider, message, history) ==
  IF provider = "ollama" THEN buildPrompt(message, history)
  ELSE IF provider = "openai" THEN buildOpenAIMessages(message, history)
  ELSE buildAnthropicMessages(message, history)

\* ------------------------------------------------- APIManager, streaming
\* The body of a streamed response is a sequence of characters.  A line
\* that is a JSON object with a string response property is { v }, v one
\* character; { } is an object without one; JSON.parse accepts white space
\* around a value and throws for any other line here.
Newline == "\n"
ResponseValues == {"a", "b"}

RECURSIVE trim(_)
trim(line) ==
  IF line = <<>> THEN line
  ELSE IF Head(line) = " " THEN trim(Tail(line))
  ELSE IF Last(line) = " " THEN trim(SubSeq(line, 1, Len(line) - 1))
  ELSE line

\* JSON.parse(line) and typeof data.response === 'string'
JSONparse(line) ==
  LET text == trim(line) IN
  IF Len(text) = 3 /\ text[1] = "{" /\ text[3] = "}" /\ text[2] \in ResponseValues
    THEN [ok |-> TRUE, string |-> TRUE, response |-> text[2]]
  ELSE IF text = <<"{", "}">>
    THEN [ok |-> TRUE, string |-> FALSE, response |-> ""]
  ELSE [ok |-> FALSE, string |-> FALSE, response |-> ""]

\* buffer.split('\n')
RECURSIVE split(_)
split(buffer) ==
  IF \A i \in 1..Len(buffer) : buffer[i] # Newline THEN <<buffer>>
  ELSE LET k == CHOOSE i \in 1..Len(buffer) :
                  buffer[i] = Newline /\ \A j \in 1..(i - 1) : buffer[j] # Newline
       IN <<SubSeq(buffer, 1, k - 1)>> \o split(SubSeq(buffer, k + 1, Len(buffer)))

\* what the for loop over the lines yields
RECURSIVE yields(_)
yields(lines) ==
  IF lines = <<>> THEN <<>>
  ELSE LET line == Head(lines)
           data == JSONparse(line)
       IN (IF trim(line) # <<>> /\ data.ok /\ data.string THEN <<data.response>> ELSE <<>>)
          \o yields(Tail(lines))

\* one turn of the while loop, reader.read() having returned the chunk value
readChunk(r, value) ==
  LET lines == split(r.buffer \o value) IN
  [r EXCEPT !.buffer = Last(lines),
            !.yielded = @ \o yields(SubSeq(lines, 1, Len(lines) - 1))]

\* ---------------------------------------------------------------- state
VARIABLES variant, now, storage, state, sends, mounted, last, reader

vars == <<variant, now, storage, state, sends, mounted, last, reader>>

InitialState ==
  [chatSessions |-> <<>>, currentSession |-> Null, providers |-> <<>>,
   activeModel |-> Null, isLoading |-> FALSE, isConnected |-> FALSE,
   streamingMessage |-> Null]

EmptyStorage == [chat_sessions |-> Null, active_model |-> Null]

\* the store with the count of its writes
CountingStorage == [chat_sessions |-> Null, active_model |-> Null, writes |-> 0]

\* a run of sendOllamaMessageStream: what the network did to its request
\* (Null before the request), whether the decode loop was entered, the
\* body the provider sends, what of it is still to be read, the loop's
\* buffer, the chunks yielded, whether the loop has ended, and whether the
\* generator has thrown
Reader(body) ==
  [net |-> Null, opened |-> FALSE, sent |-> body, body |-> body, buffer |-> <<>>,
   yielded |-> <<>>, done |-> FALSE, raised |-> FALSE]

NoReader == Reader(<<>>)

\* a handler's view of the world: hook values, store, sends awaiting the network
World == [state |-> state, storage |-> storage, sends |-> sends]

\* ------------------------------------------------------------- handlers
\* A handler is an operator of the closure c it was created in, the world w
\* it runs in and the clock t; it yields the world it leaves behind, whether
\* it raised, whether it called sendMessage (invoked) and whether that call
\* passed the isLoading gate (accepted).
Result(w, raised, invoked, accepted) ==
  [w |-> w, raised |-> raised, invoked |-> invoked, accepted |-> accepted]

replaceSession(sessions, session) ==
  [i \in 1..Len(sessions) |-> IF sessions[i].id = session.id THEN session ELSE sessions[i]]

setActiveModel(w, model) ==
  LET prev == w.state.providers
      models(p) == prev[p].models
  IN [w EXCEPT !.state.activeModel = Some(model),
               !.storage = setActiveModelStore(@, model),
               !.state.providers =
                  [p \in 1..Len(prev) |-> [prev[p] EXCEPT !.models =
                    [i \in 1..Len(models(p)) |->
                       [models(p)[i] EXCEPT !.isActive = (models(p)[i].id = model.id)]]]]]

generateChatTitle(firstMessage) ==
  LET words == SubSeq(firstMessage, 1, Min(4, Len(firstMessage))) IN
  words \o (IF Len(firstMessage) > 4 THEN <<"...">> ELSE <<>>)

newChatSession(c, t) ==
  [id |-> t, title |-> NewChatTitle, messages |-> <<>>,
   model |-> Get(c.activeModel).name, createdAt |-> Date(t), updatedAt |-> Date(t),
   isActive |-> TRUE, isPinned |-> FALSE, tags |-> <<>>]

persistNewChat_features(ls, newSession, chatSessions) ==
  PromiseAllSave(ls, <<newSession>> \o deactivateAll(chatSessions))

persistNewChat_contexts(ls, newSession, chatSessions) ==
  saveChatSession(ls, newSession)

\* the part of createNewChat both variants share; persist is the variant's
\* write of the store
createNewChatWith(c, w, t, v) ==
  IF c.activeModel = Null
    THEN IF Len(c.providers) > 0 /\ Len(c.providers[1].models) > 0
           \* setActiveModel is awaited, then activeModel!.name reads the
           \* closure's null activeModel: TypeError
           THEN Result(setActiveModel(w, c.providers[1].models[1]), TRUE, FALSE, FALSE)
           ELSE Result(w, TRUE, FALSE, FALSE)
    ELSE LET newSession == newChatSession(c, t)
             updatedSessions == <<newSession>> \o deactivateAll(c.chatSessions)
         IN Result([w EXCEPT !.state.chatSessions = updatedSessions,
                             !.state.currentSession = Some(newSession),
                             !.storage = IF v = "features"
                                          THEN persistNewChat_features(@, newSession, c.chatSessions)
                                          ELSE persistNewChat_contexts(@, newSession, c.chatSessions)],
                   FALSE, FALSE, FALSE)

createNewChat_features(c, w, t) == createNewChatWith(c, w, t, "features")

createNewChat_contexts(c, w, t) == createNewChatWith(c, w, t, "contexts")

createNewChat(v, c, w, t) ==
  IF v = "features" THEN createNewChat_features(c, w, t) ELSE createNewChat_contexts(c, w, t)

activateOnly(sessions, sessionId) ==
  [i \in 1..Len(sessions) |-> [sessions[i] EXCEPT !.isActive = (sessions[i].id = sessionId)]]

switchToChat_features(c, w, sessionId) ==
  LET targetSession == find(c.chatSessions, sessionId) IN
  IF targetSession = Null THEN Result(w, FALSE, FALSE, FALSE)
  ELSE LET updatedSessions == activateOnly(c.chatSessions, sessionId) IN
       Result([w EXCEPT !.state.chatSessions = updatedSessions,
                        !.state.currentSession =
                           Some([Get(targetSession) EXCEPT !.isActive = TRUE]),
                        !.storage = PromiseAllSave(@, updatedSessions)],
              FALSE, FALSE, FALSE)

switchToChat_contexts(c, w, sessionId) ==
  LET updatedSessions == activateOnly(c.chatSessions, sessionId)
      session == find(updatedSessions, sessionId)
  IN Result([w EXCEPT !.state.chatSessions = updatedSessions,
                      !.state.currentSession =
                         IF session # Null
                           THEN Some([Get(session) EXCEPT !.isActive = TRUE]) ELSE @,
                      !.storage = PromiseAllSave(@, updatedSessions)],
            FALSE, FALSE, FALSE)

switchToChat(v, c, w, sessionId) ==
  IF v = "features" THEN switchToChat_features(c, w, sessionId)
  ELSE switchToChat_contexts(c, w, sessionId)

\* deleteChat, the same in both provider files
deleteChat(c, w, sessionId) ==
  LET updatedSessions == SelectSeq(c.chatSessions, LAMBDA s : s.id # sessionId)
      w1 == [w EXCEPT !.storage = deleteChatSession(@, sessionId),
                      !.state.chatSessions = updatedSessions]
  IN IF c.currentSession # Null /\ Get(c.currentSession).id = sessionId
       THEN IF Len(updatedSessions) > 0
              THEN LET newActiveSession == [updatedSessions[1] EXCEPT !.isActive = TRUE]
                       sessionsWithActiveState ==
                         activateOnly(updatedSessions, newActiveSession.id)
                   IN Result([w1 EXCEPT
                                !.state.currentSession = Some(newActiveSession),
                                !.state.chatSessions = sessionsWithActiveState,
                                !.storage = PromiseAllSave(@, sessionsWithActiveState)],
                             FALSE, FALSE, FALSE)
              ELSE Result([w1 EXCEPT !.state.currentSession = Null], FALSE, FALSE, FALSE)
       ELSE Result(w1, FALSE, FALSE, FALSE)

\* deleteMultipleChats, the same in both provider files; the switchToChat
\* it awaits is the one of its render, with that render's chatSessions
deleteMultipleChats(v, c, w, sessionIds) ==
  LET updatedSessions == SelectSeq(c.chatSessions, LAMBDA s : s.id \notin sessionIds)
      w1 == [w EXCEPT !.storage = deleteMultipleChatSessions(@, sessionIds),
                      !.state.chatSessions = updatedSessions]
  IN IF c.currentSession # Null /\ Get(c.currentSession).id \in sessionIds
       THEN IF Len(updatedSessions) > 0
              THEN switchToChat(v, c, w1, updatedSessions[1].id)
              ELSE Result([w1 EXCEPT !.state.currentSession = Null], FALSE, FALSE, FALSE)
       ELSE Result(w1, FALSE, FALSE, FALSE)

\* the history handed to APIManager
messagesToSend(v, currentSession, userMessage) ==
  IF v = "features" THEN Append(currentSession.messages, userMessage)
  ELSE currentSession.messages

\* sendMessage / sendMessageStream from the isLoading gate up to the
\* provider call.  kind is "blocking" for sendMessage and "stream" for
\* sendMessageStream.
sendGated(v, kind, c, w, t, text) ==
  IF c.isLoading THEN Result(w, FALSE, TRUE, FALSE)
  ELSE IF c.currentSession = Null
    \* await createNewChat(); the closure's currentSession is still null
    THEN LET r == createNewChat(v, c, w, t) IN Result(r.w, r.raised, TRUE, FALSE)
  ELSE
    LET currentSession == Get(c.currentSession)
        userMessage == Message(t, t, text, "user", FALSE)
        updatedSession ==
          [currentSession EXCEPT
             !.messages = Append(@, userMessage),
             !.updatedAt = Date(t),
             !.title = IF Len(currentSession.messages) = 0
                         THEN generateChatTitle(text) ELSE @]
        send == [kind |-> kind, text |-> text,
                 closure |-> [activeModel |-> c.activeModel,
                              isConnected |-> c.isConnected,
                              isLoading |-> c.isLoading,
                              currentSession |-> c.currentSession],
                 updatedSession |-> updatedSession,
                 history |-> messagesToSend(v, currentSession, userMessage),
                 responseText |-> <<>>, regenerated |-> 0, retitled |-> Null]
    IN Result([w EXCEPT
                 !.state.isLoading = TRUE,
                 !.state.streamingMessage = IF kind = "stream" THEN Some(<<>>) ELSE @,
                 !.state.currentSession = Some(updatedSession),
                 !.state.chatSessions = replaceSession(@, updatedSession),
                 !.sends = Append(@, send)],
              FALSE, TRUE, TRUE)

\* sendStart with setIsLoading(true) ahead of the connection test
sendStart_loadsBeforeTest(v, kind, c, w, t, text) ==
  IF c.activeModel = Null \/ ~c.isConnected
    THEN Result([w EXCEPT !.state.isLoading = TRUE], TRUE, TRUE, FALSE)
  ELSE sendGated(v, kind, c, w, t, text)

\* sendMessage / sendMessageStream up to the provider call: the connection
\* test throws before anything else
sendStart(v, kind, c, w, t, text) ==
  IF c.activeModel = Null \/ ~c.isConnected THEN Result(w, TRUE, TRUE, FALSE)
  ELSE sendGated(v, kind, c, w, t, text)

\* for await (const token of ...): responseText += token
\* the loop body appending the text so far to the session as a message
streamToken_intoSession(w, i, token) ==
  LET responseText == Append(w.sends[i].responseText, token)
      session == [w.sends[i].updatedSession EXCEPT
                    !.messages = Append(@, Message(0, 0, responseText, "assistant", FALSE))]
  IN [w EXCEPT !.sends[i].responseText = responseText,
               !.state.streamingMessage = Some(responseText),
               !.state.currentSession = Some(session)]

streamToken(w, i, token) ==
  LET responseText == Append(w.sends[i].responseText, token) IN
  [w EXCEPT !.sends[i].responseText = responseText,
            !.state.streamingMessage = Some(responseText)]

removeSend(seq, i) == SubSeq(seq, 1, i - 1) \o SubSeq(seq, i + 1, Len(seq))

\* sendResolved building the final session on the closure's currentSession,
\* as the catch block builds the error session
sendResolved_fromClosure(w, t, i, response) ==
  LET send == w.sends[i]
      assistantMessage == Message(t + 1, t, response, "assistant", FALSE)
      currentSession == Get(send.closure.currentSession)
      finalSession == [currentSession EXCEPT !.messages = Append(@, assistantMessage),
                                             !.updatedAt = Date(t)]
  IN [w EXCEPT
        !.state.streamingMessage = IF send.kind = "stream" THEN Null ELSE @,
        !.state.currentSession = Some(finalSession),
        !.state.chatSessions = replaceSession(@, finalSession),
        !.storage = saveChatSession(@, finalSession),
        !.state.isLoading = FALSE,
        !.sends = removeSend(@, i)]

\* the rest of the try block once the provider has answered, and finally
sendResolved(w, t, i, response) ==
  LET send == w.sends[i]
      assistantMessage == Message(t + 1, t, response, "assistant", FALSE)
      finalSession == [send.updatedSession EXCEPT !.messages = Append(@, assistantMessage),
                                                  !.updatedAt = Date(t)]
  IN [w EXCEPT
        !.state.streamingMessage = IF send.kind = "stream" THEN Null ELSE @,
        !.state.currentSession = Some(finalSession),
        !.state.chatSessions = replaceSession(@, finalSession),
        !.storage = saveChatSession(@, finalSession),
        !.state.isLoading = FALSE,
        !.sends = removeSend(@, i)]

\* the catch block once the provider call has thrown, and finally
sendRejected(w, t, i) ==
  LET send == w.sends[i]
      errorMessage == Message(t + 1, t, ErrorText, "assistant", TRUE)
      currentSession == Get(send.closure.currentSession)
      errorSession == [currentSession EXCEPT !.messages = Append(@, errorMessage),
                                             !.updatedAt = Date(t)]
  IN [w EXCEPT
        !.state.streamingMessage = IF send.kind = "stream" THEN Null ELSE @,
        !.state.currentSession = Some(errorSession),
        !.state.chatSessions = replaceSession(@, errorSession),
        !.storage = saveChatSession(@, errorSession),
        !.state.isLoading = FALSE,
        !.sends = removeSend(@, i)]

\* the catch block where saveChatSession throws (localStorage.setItem
\* throwing through the rethrow of saveChatSession), the setIsLoading(false)
\* of finally written after the try statement, where the exception skips it
sendRejectedSaveRaises_afterTry(w, t, i) ==
  LET send == w.sends[i]
      errorMessage == Message(t + 1, t, ErrorText, "assistant", TRUE)
      currentSession == Get(send.closure.currentSession)
      errorSession == [currentSession EXCEPT !.messages = Append(@, errorMessage),
                                             !.updatedAt = Date(t)]
  IN [w EXCEPT
        !.state.streamingMessage = IF send.kind = "stream" THEN Null ELSE @,
        !.state.currentSession = Some(errorSession),
        !.state.chatSessions = replaceSession(@, errorSession),
        !.sends = removeSend(@, i)]

\* the catch block where saveChatSession throws: the setters before the
\* save have run, nothing is written, and finally runs before the
\* exception leaves the handler
sendRejectedSaveRaises(w, t, i) ==
  LET send == w.sends[i]
      errorMessage == Message(t + 1, t, ErrorText, "assistant", TRUE)
      currentSession == Get(send.closure.currentSession)
      errorSession == [currentSession EXCEPT !.messages = Append(@, errorMessage),
                                             !.updatedAt = Date(t)]
  IN [w EXCEPT
        !.state.streamingMessage = IF send.kind = "stream" THEN Null ELSE @,
        !.state.currentSession = Some(errorSession),
        !.state.chatSessions = replaceSession(@, errorSession),
        !.state.isLoading = FALSE,
        !.sends = removeSend(@, i)]

\* regenerateResponse without the return on the first message, the index
\* of the previous message clamped to the list
regenerateResponse_clampsIndex(v, c, w, t, messageId) ==
  IF c.currentSession = Null \/ c.activeModel = Null \/ ~c.isConnected
    THEN Result(w, FALSE, FALSE, FALSE)
  ELSE
    LET currentSession == Get(c.currentSession)
        messageIndex == findIndex(currentSession.messages, messageId)
    IN IF messageIndex = 0 THEN Result(w, FALSE, FALSE, FALSE)
       ELSE
         LET previousUserMessage ==
               currentSession.messages[IF messageIndex = 1 THEN 1 ELSE messageIndex - 1]
         IN
         IF previousUserMessage.sender # "user" THEN Result(w, FALSE, FALSE, FALSE)
         ELSE
           LET updatedSession ==
                 [currentSession EXCEPT !.messages = SubSeq(@, 1, messageIndex - 1)]
               w1 == [w EXCEPT !.state.currentSession = Some(updatedSession)]
               r == sendStart(v, "blocking", c, w1, t, previousUserMessage.text)
           IN IF r.accepted
                THEN [r EXCEPT !.w.sends[Len(r.w.sends)].regenerated = messageIndex]
                ELSE r

\* regenerateResponse without the test of the previous message's sender
regenerateResponse_anyPrevious(v, c, w, t, messageId) ==
  IF c.currentSession = Null \/ c.activeModel = Null \/ ~c.isConnected
    THEN Result(w, FALSE, FALSE, FALSE)
  ELSE
    LET currentSession == Get(c.currentSession)
        messageIndex == findIndex(currentSession.messages, messageId)
    IN IF messageIndex = 0 \/ messageIndex = 1 THEN Result(w, FALSE, FALSE, FALSE)
       ELSE
         LET previousUserMessage == currentSession.messages[messageIndex - 1]
             updatedSession ==
               [currentSession EXCEPT !.messages = SubSeq(@, 1, messageIndex - 1)]
             w1 == [w EXCEPT !.state.currentSession = Some(updatedSession)]
             r == sendStart(v, "blocking", c, w1, t, previousUserMessage.text)
         IN IF r.accepted
              THEN [r EXCEPT !.w.sends[Len(r.w.sends)].regenerated = messageIndex]
              ELSE r

regenerateResponse(v, c, w, t, messageId) ==
  IF c.currentSession = Null \/ c.activeModel = Null \/ ~c.isConnected
    THEN Result(w, FALSE, FALSE, FALSE)
  ELSE
    LET currentSession == Get(c.currentSession)
        messageIndex == findIndex(currentSession.messages, messageId)
    IN IF messageIndex = 0 \/ messageIndex = 1 THEN Result(w, FALSE, FALSE, FALSE)
       ELSE
         LET previousUserMessage == currentSession.messages[messageIndex - 1] IN
         IF previousUserMessage.sender # "user" THEN Result(w, FALSE, FALSE, FALSE)
         ELSE
           LET updatedSession ==
                 [currentSession EXCEPT !.messages = SubSeq(@, 1, messageIndex - 1)]
               w1 == [w EXCEPT !.state.currentSession = Some(updatedSession)]
               r == sendStart(v, "blocking", c, w1, t, previousUserMessage.text)
           \* regenerated records which message the send is to replace
           IN IF r.accepted
                THEN [r EXCEPT !.w.sends[Len(r.w.sends)].regenerated = messageIndex]
                ELSE r

\* updateChatTitle, the same in both provider files.  retitled records, in
\* each send of that session awaiting the provider, the title given.
updateChatTitle(c, w, t, sessionId, title) ==
  LET updatedSessions ==
        [i \in 1..Len(c.chatSessions) |->
           IF c.chatSessions[i].id = sessionId
             THEN [c.chatSessions[i] EXCEPT !.title = title, !.updatedAt = Date(t)]
             ELSE c.chatSessions[i]]
      session == find(updatedSessions, sessionId)
  IN Result([w EXCEPT
               !.state.chatSessions = updatedSessions,
               !.state.currentSession =
                  IF c.currentSession # Null /\ Get(c.currentSession).id = sessionId
                    THEN Some([Get(c.currentSession) EXCEPT !.title = title]) ELSE @,
               !.storage = IF session # Null THEN saveChatSession(@, Get(session)) ELSE @,
               !.sends = [i \in 1..Len(@) |->
                            IF @[i].updatedSession.id = sessionId /\ session # Null
                              THEN [@[i] EXCEPT !.retitled = Some(title)] ELSE @[i]]],
            FALSE, FALSE, FALSE)

loadChatSessions_features(w) ==
  LET normalizedSessions == getChatSessions(w.storage) IN
  IF \E i \in 1..Len(normalizedSessions) : normalizedSessions[i].isActive
    THEN LET k == CHOOSE i \in 1..Len(normalizedSessions) :
                    /\ normalizedSessions[i].isActive
                    /\ \A j \in 1..(i - 1) : ~normalizedSessions[j].isActive
         IN [w EXCEPT !.state.chatSessions = normalizedSessions,
                      !.state.currentSession = Some(normalizedSessions[k])]
  ELSE IF Len(normalizedSessions) > 0
    THEN LET firstSession == [normalizedSessions[1] EXCEPT !.isActive = TRUE] IN
         [w EXCEPT !.state.chatSessions = normalizedSessions,
                   !.state.currentSession = Some(firstSession),
                   !.storage = saveChatSession(@, firstSession)]
  ELSE [w EXCEPT !.state.chatSessions = normalizedSessions]

loadChatSessions_contexts(w) ==
  LET normalizedSessions == getChatSessions(w.storage) IN
  IF \E i \in 1..Len(normalizedSessions) : normalizedSessions[i].isActive
    THEN LET k == CHOOSE i \in 1..Len(normalizedSessions) :
                    /\ normalizedSessions[i].isActive
                    /\ \A j \in 1..(i - 1) : ~normalizedSessions[j].isActive
         IN [w EXCEPT !.state.chatSessions = normalizedSessions,
                      !.state.currentSession = Some(normalizedSessions[k])]
  ELSE IF Len(normalizedSessions) > 0
    THEN [w EXCEPT !.state.chatSessions = normalizedSessions,
                   !.state.currentSession = Some(normalizedSessions[1])]
  ELSE [w EXCEPT !.state.chatSessions = normalizedSessions]

loadActiveModel(w) == [w EXCEPT !.state.activeModel = getActiveModel(w.storage)]

\* initializeData; ok tells whether APIManager.getProviders resolved
initializeData(v, w, ok) ==
  LET w1 == IF v = "features" THEN loadChatSessions_features(w)
            ELSE loadChatSessions_contexts(w)
      w2 == loadActiveModel(w1)
  IN [w2 EXCEPT !.state.providers = IF ok THEN ProvidersData ELSE @,
                !.state.isConnected = ok]

\* refreshProviders; ok tells whether APIManager.getProviders resolved
refreshProviders(c, w, ok) ==
  IF ok
    THEN LET w1 == [w EXCEPT !.state.providers = ProvidersData,
                             !.state.isConnected = TRUE]
         IN Result(IF c.activeModel = Null /\ Len(ProvidersData) > 0
                      /\ Len(ProvidersData[1].models) > 0
                     THEN setActiveModel(w1, ProvidersData[1].models[1]) ELSE w1,
                   FALSE, FALSE, FALSE)
    ELSE Result([w EXCEPT !.state.isConnected = FALSE], TRUE, FALSE, FALSE)

\* -------------------------------------------------------------- actions
SessionIds == 1..MaxNow
MessageIds == 1..(MaxNow + 1)

\* the record kept of the last handler run: what was called and how it
\* ended; for the end of a send, the send and the provider's answer
Call(op, arg, text, r, send, response) ==
  [op |-> op, arg |-> arg, text |-> text, raised |-> r.raised,
   invoked |-> r.invoked, accepted |-> r.accepted, send |-> send,
   response |-> response]

NoCall == Call("none", 0, <<>>, Result(World, FALSE, FALSE, FALSE), Null, <<>>)

Settle(r, op, arg, text, send, response) ==
  \E settled \in {r} :
    /\ state' = settled.w.state
    /\ storage' = settled.w.storage
    /\ sends' = settled.w.sends
    /\ last' = Call(op, arg, text, settled, send, response)
    /\ UNCHANGED <<variant, now, mounted, reader>>

Init ==
  /\ variant \in Variants
  /\ now = 1
  /\ storage = EmptyStorage
  /\ state = InitialState
  /\ sends = <<>>
  /\ mounted = FALSE
  /\ last = NoCall
  /\ reader = NoReader

\* useEffect(() => { initializeData() }, [])
Mount ==
  /\ ~mounted
  /\ \E ok \in BOOLEAN :
       LET w == initializeData(variant, World, ok) IN
       /\ state' = w.state
       /\ storage' = w.storage
       /\ last' = Call("initializeData", 0, <<>>, Result(w, FALSE, FALSE, FALSE), Null, <<>>)
  /\ mounted' = TRUE
  /\ UNCHANGED <<variant, now, sends, reader>>

Tick ==
  /\ now < MaxNow
  /\ now' = now + 1
  /\ UNCHANGED <<variant, storage, state, sends, mounted, last, reader>>

RefreshProviders ==
  /\ mounted
  /\ \E ok \in BOOLEAN :
       Settle(refreshProviders(state, World, ok), "refreshProviders", 0, <<>>, Null, <<>>)

CreateNewChat ==
  /\ mounted
  /\ Len(state.chatSessions) < MaxSessions
  /\ Settle(createNewChat(variant, state, World, now), "createNewChat", 0, <<>>, Null, <<>>)

SwitchToChatId(sessionId) ==
  /\ mounted
  /\ Settle(switchToChat(variant, state, World, sessionId),
            "switchToChat", sessionId, <<>>, Null, <<>>)

SwitchToChat == \E sessionId \in SessionIds : SwitchToChatId(sessionId)

\* room for the messages a send appends, or for the session it creates
SendFits(c, maxMessages) ==
  IF c.currentSession = Null THEN Len(c.chatSessions) < MaxSessions
  ELSE Len(Get(c.currentSession).messages) + 2 <= maxMessages

SendMessageUpTo(maxMessages) ==
  /\ mounted
  /\ SendFits(state, maxMessages)
  /\ \E text \in Texts :
       Settle(sendStart(variant, "blocking", state, World, now, text),
              "sendMessage", 0, text, Null, <<>>)

SendMessage == SendMessageUpTo(MaxMessages)

\* sendMessage where sessions are created and switched
SessionSendMessage == SendMessageUpTo(MaxSessionMessages)

\* sendMessage where a send is called again
ResendSendMessage == SendMessageUpTo(MaxResendMessages)

\* only src/features/chat/ChatContext.tsx has sendMessageStream
SendMessageStreamUpTo(maxMessages) ==
  /\ mounted
  /\ variant = "features"
  /\ SendFits(state, maxMessages)
  /\ \E text \in Texts :
       Settle(sendStart(variant, "stream", state, World, now, text),
              "sendMessageStream", 0, text, Null, <<>>)

SendMessageStream == SendMessageStreamUpTo(MaxMessages)

ResendSendMessageStream == SendMessageStreamUpTo(MaxResendMessages)

\* sendMessage or sendMessageStream called once more from the render that
\* called send i, which still awaits the provider
SendAgain ==
  /\ mounted
  /\ Len(sends) < MaxSends
  /\ \E i \in 1..Len(sends), text \in Texts :
       /\ Len(Get(sends[i].closure.currentSession).messages) + 2 <= MaxResendMessages
       /\ Settle(sendStart(variant, sends[i].kind, sends[i].closure, World, now, text),
                 "sendAgain", i, text, Null, <<>>)

ProviderResponds ==
  \E i \in 1..Len(sends), response \in Responses :
    /\ sends[i].kind = "blocking"
    /\ Settle(Result(sendResolved(World, now, i, response), FALSE, FALSE, FALSE),
              "resolved", i, sends[i].text, Some(sends[i]), response)

StreamToken ==
  \E i \in 1..Len(sends), token \in Tokens :
    /\ sends[i].kind = "stream"
    /\ Len(sends[i].responseText) < MaxChunks
    /\ LET w == streamToken(World, i, token) IN
       /\ state' = w.state
       /\ sends' = w.sends
    /\ UNCHANGED <<variant, now, storage, mounted, last, reader>>

StreamEnds ==
  \E i \in 1..Len(sends) :
    /\ sends[i].kind = "stream"
    /\ Settle(Result(sendResolved(World, now, i, sends[i].responseText), FALSE, FALSE, FALSE),
              "resolved", i, sends[i].text, Some(sends[i]), sends[i].responseText)

ProviderFails ==
  \E i \in 1..Len(sends) :
    Settle(Result(sendRejected(World, now, i), FALSE, FALSE, FALSE),
           "rejected", i, sends[i].text, Some(sends[i]), <<>>)

RegenerateResponseId(messageId) ==
  /\ mounted
  /\ LET r == regenerateResponse(variant, state, World, now, messageId) IN
     /\ r.accepted => Len(Get(state.currentSession).messages) + 2 <= MaxMessages
     /\ Settle(r, "regenerateResponse", messageId, <<>>, Null, <<>>)

RegenerateResponse == \E messageId \in MessageIds : RegenerateResponseId(messageId)

UpdateChatTitle ==
  /\ mounted
  /\ \E sessionId \in SessionIds, title \in Titles :
       Settle(updateChatTitle(state, World, now, sessionId, title),
              "updateChatTitle", sessionId, title, Null, <<>>)

TitleSendMessage == SendMessageUpTo(MaxTitleMessages)

\* sessions are created and switched; sends fill and persist them
NextSessions ==
  \/ Mount
  \/ Tick
  \/ RefreshProviders
  \/ CreateNewChat
  \/ SwitchToChat
  \/ SessionSendMessage
  \/ ProviderResponds
  \/ ProviderFails

SpecSessions == Init /\ [][NextSessions]_vars

\* messages are sent, streamed and regenerated in the session the first
\* send creates
NextSend ==
  \/ Mount
  \/ Tick
  \/ RefreshProviders
  \/ SendMessage
  \/ SendMessageStream
  \/ ProviderResponds
  \/ StreamToken
  \/ StreamEnds
  \/ ProviderFails
  \/ RegenerateResponse

SpecSend == Init /\ [][NextSend]_vars

\* a send is called again from the render of a send that has not settled
NextResend ==
  \/ Mount
  \/ Tick
  \/ RefreshProviders
  \/ ResendSendMessage
  \/ ResendSendMessageStream
  \/ SendAgain
  \/ ProviderResponds
  \/ StreamToken
  \/ StreamEnds
  \/ ProviderFails

SpecResend == Init /\ [][NextResend]_vars

\* a session is renamed between sends and while a send awaits the provider
NextTitle ==
  \/ Mount
  \/ Tick
  \/ RefreshProviders
  \/ TitleSendMessage
  \/ UpdateChatTitle
  \/ ProviderResponds
  \/ ProviderFails

SpecTitle == Init /\ [][NextTitle]_vars

\* the provider call of send i fails and the save of the error session throws
PersistenceFails ==
  \E i \in 1..Len(sends) :
    Settle(Result(sendRejectedSaveRaises(World, now, i), TRUE, FALSE, FALSE),
           "saveRaised", i, sends[i].text, Some(sends[i]), <<>>)

\* the await of a send in flight ends: the provider answers, the stream
\* ends, or the request fails or is aborted by its timeout
SendSettles ==
  \/ PersistenceFails
  \/ ProviderFails
  \/ ProviderResponds
  \/ StreamEnds

\* sends, also from a stale render, each of which settles in one of the ways
NextSettle ==
  \/ Mount
  \/ Tick
  \/ RefreshProviders
  \/ ResendSendMessage
  \/ ResendSendMessageStream
  \/ SendAgain
  \/ StreamToken
  \/ SendSettles

\* every awaited provider call settles
SpecSettle == Init /\ [][NextSettle]_vars /\ WF_vars(SendSettles)

\* the ids of sessions where three sessions are created and deleted
DeleteSessionIds == 1..MaxDeleteNow

DeleteTick ==
  /\ now < MaxDeleteNow
  /\ now' = now + 1
  /\ UNCHANGED <<variant, storage, state, sends, mounted, last, reader>>

DeleteCreateNewChat ==
  /\ mounted
  /\ Len(state.chatSessions) < MaxDeleteSessions
  /\ Settle(createNewChat(variant, state, World, now), "createNewChat", 0, <<>>, Null, <<>>)

DeleteSwitchToChat == \E sessionId \in DeleteSessionIds : SwitchToChatId(sessionId)

DeleteChatId(sessionId) ==
  /\ mounted
  /\ Settle(deleteChat(state, World, sessionId), "deleteChat", sessionId, <<>>, Null, <<>>)

DeleteChat == \E sessionId \in DeleteSessionIds : DeleteChatId(sessionId)

DeleteMultipleChatsOf(sessionIds) ==
  /\ mounted
  /\ Settle(deleteMultipleChats(variant, state, World, sessionIds),
            "deleteMultipleChats", 0, <<>>, Null, <<>>)

DeleteMultipleChats ==
  \E sessionIds \in SUBSET DeleteSessionIds \ {{}} : DeleteMultipleChatsOf(sessionIds)

\* up to three sessions are created, switched and deleted
NextDelete ==
  \/ Mount
  \/ DeleteTick
  \/ RefreshProviders
  \/ DeleteCreateNewChat
  \/ DeleteSwitchToChat
  \/ DeleteChat
  \/ DeleteMultipleChats

SpecDelete == Init /\ [][NextDelete]_vars

SendDeleteChat == \E sessionId \in SessionIds : DeleteChatId(sessionId)

SendDeleteMultipleChats ==
  \E sessionIds \in SUBSET SessionIds \ {{}} : DeleteMultipleChatsOf(sessionIds)

\* sessions are created, switched and deleted while sends await the provider
NextSendDelete ==
  \/ Mount
  \/ Tick
  \/ RefreshProviders
  \/ CreateNewChat
  \/ SwitchToChat
  \/ SendDeleteChat
  \/ SendDeleteMultipleChats
  \/ SessionSendMessage
  \/ ProviderResponds
  \/ ProviderFails

SpecSendDelete == Init /\ [][NextSendDelete]_vars

\* texts of one, four and five words
TitleTexts ==
  {<<"Hi">>, <<"What", "is", "the", "capital">>, <<"What", "is", "the", "capital", "please">>}

\* sendMessage with a text of any of these lengths
WordsSendMessage ==
  /\ mounted
  /\ SendFits(state, MaxTitleMessages)
  /\ \E text \in TitleTexts :
       Settle(sendStart(variant, "blocking", state, World, now, text),
              "sendMessage", 0, text, Null, <<>>)

\* sends of short and long texts that the provider answers or fails
NextWords ==
  \/ Mount
  \/ Tick
  \/ RefreshProviders
  \/ WordsSendMessage
  \/ ProviderResponds
  \/ ProviderFails

SpecWords == Init /\ [][NextWords]_vars

\* a session of n messages, user and assistant in turn
PriorMessages(n) ==
  [i \in 1..n |->
     Message(i, 1, <<"m", ToString(i)>>, IF i % 2 = 1 THEN "user" ELSE "assistant", FALSE)]

PriorSession(n) ==
  [id |-> 1,
   title |-> IF n = 0 THEN NewChatTitle ELSE generateChatTitle(PriorMessages(n)[1].text),
   messages |-> PriorMessages(n), model |-> Model1.name, createdAt |-> Date(1),
   updatedAt |-> Date(1), isActive |-> TRUE, isPinned |-> FALSE, tags |-> <<>>]

\* the client with a session of up to MaxPriorMessages messages, a model
\* and a connection
InitPayload ==
  /\ variant \in Variants
  /\ now = MaxNow
  /\ \E n \in 0..MaxPriorMessages :
       /\ storage = setActiveModelStore(saveChatSession(EmptyStorage, PriorSession(n)), Model1)
       /\ state = [InitialState EXCEPT !.chatSessions = <<PriorSession(n)>>,
                                       !.currentSession = Some(PriorSession(n)),
                                       !.providers = ProvidersData,
                                       !.activeModel = Some(Model1),
                                       !.isConnected = TRUE]
  /\ sends = <<>>
  /\ mounted = TRUE
  /\ last = NoCall
  /\ reader = NoReader

PayloadSendMessage == last.op = "none" /\ SendMessageUpTo(MaxPriorMessages + 2)

PayloadSendMessageStream == last.op = "none" /\ SendMessageStreamUpTo(MaxPriorMessages + 2)

\* one send in a session of any length up to the bound
NextPayload ==
  \/ PayloadSendMessage
  \/ PayloadSendMessageStream
  \/ ProviderResponds
  \/ StreamEnds
  \/ ProviderFails

SpecPayload == InitPayload /\ [][NextPayload]_vars

\* ---------------------------------------------- StorageManager, directly
StoreIds == 1..MaxStoreIds

\* the sessions handed to saveChatSession: as createNewChat makes one
\* (active, no messages), and as it is after a send and a switch to another
\* session (inactive, a message, updated later)
StoreSession(id, sent) ==
  [id |-> id,
   title |-> IF sent THEN <<"Hi">> ELSE NewChatTitle,
   messages |-> IF sent THEN <<Message(id + 1, id + 1, <<"Hi">>, "user", FALSE)>> ELSE <<>>,
   model |-> Model1.name, createdAt |-> Date(id),
   updatedAt |-> IF sent THEN Date(id + 1) ELSE Date(id),
   isActive |-> ~sent, isPinned |-> FALSE, tags |-> <<>>]

StoreSessions == {StoreSession(id, sent) : id \in StoreIds, sent \in BOOLEAN}

\* a text an earlier version of the client wrote: a session record with no
\* isActive property
LegacyText ==
  LET session == sessionToJSON(StoreSession(MaxStoreIds, TRUE)) IN
  [ok |-> TRUE, array |-> TRUE,
   val |-> <<[f \in DOMAIN session \ {"isActive"} |-> session[f]]>>]

\* texts that are not a list of session records: not JSON, JSON null, an
\* item without a messages array, a record with nothing but id and messages
CorruptTexts ==
  {[ok |-> FALSE, array |-> FALSE, val |-> <<>>],
   [ok |-> TRUE, array |-> FALSE, val |-> <<>>],
   [ok |-> TRUE, array |-> TRUE, val |-> <<[id |-> 1]>>],
   [ok |-> TRUE, array |-> TRUE, val |-> <<[id |-> 1, messages |-> <<>>]>>]}

\* the record kept of the last StorageManager call: the call, its argument,
\* how many sessions getChatSessions returned before it and how many of the
\* ids it names were among them, and whether the call before it was the
\* same call
StoreCall(op, arg, ids) ==
  LET before == getChatSessions(storage) IN
  [op |-> op, arg |-> arg, length |-> Len(before),
   found |-> Cardinality({id \in ids : find(before, id) # Null}),
   repeated |-> (last.op = op /\ last.arg = arg)]

\* the store as the call finds it, its writes not yet counted
Uncounted == [storage EXCEPT !.writes = 0]

InitStorage ==
  /\ variant = "features"
  /\ now = 1
  /\ storage \in {CountingStorage, [CountingStorage EXCEPT !.chat_sessions = Some(LegacyText)]}
  /\ state = InitialState
  /\ sends = <<>>
  /\ mounted = FALSE
  /\ last = [op |-> "none", arg |-> 0, length |-> 0, found |-> 0, repeated |-> FALSE]
  /\ reader = NoReader

SaveChatSessionOf(session) ==
  /\ \/ Len(getChatSessions(storage)) < MaxStored
     \/ find(getChatSessions(storage), session.id) # Null
  /\ storage' = saveChatSession(Uncounted, session)
  /\ last' = StoreCall("saveChatSession", session, {session.id})
  /\ UNCHANGED <<variant, now, state, sends, mounted, reader>>

SaveChatSession == \E session \in StoreSessions : SaveChatSessionOf(session)

DeleteChatSessionOf(sessionId) ==
  /\ storage' = deleteChatSession(Uncounted, sessionId)
  /\ last' = StoreCall("deleteChatSession", sessionId, {sessionId})
  /\ UNCHANGED <<variant, now, state, sends, mounted, reader>>

DeleteChatSession == \E sessionId \in StoreIds : DeleteChatSessionOf(sessionId)

DeleteMultipleChatSessionsOf(sessionIds) ==
  /\ storage' = deleteMultipleChatSessions(Uncounted, sessionIds)
  /\ last' = StoreCall("deleteMultipleChatSessions", sessionIds, sessionIds)
  /\ UNCHANGED <<variant, now, state, sends, mounted, reader>>

DeleteMultipleChatSessions ==
  \E sessionIds \in SUBSET StoreIds : DeleteMultipleChatSessionsOf(sessionIds)

\* something other than the client writes or removes the chat_sessions entry
Corrupt ==
  /\ \E text \in CorruptTexts \cup {LegacyText} :
       storage' = [storage EXCEPT !.chat_sessions = Some(text), !.writes = 0]
  /\ last' = StoreCall("corrupt", 0, {})
  /\ UNCHANGED <<variant, now, state, sends, mounted, reader>>

\* StorageManager on a store only the client writes
NextStorage ==
  \/ SaveChatSession
  \/ DeleteChatSession
  \/ DeleteMultipleChatSessions

SpecStorage == InitStorage /\ [][NextStorage]_vars

\* StorageManager on a store that something else writes too
NextCorrupt ==
  \/ SaveChatSession
  \/ DeleteChatSession
  \/ Corrupt

SpecCorrupt == InitStorage /\ [][NextCorrupt]_vars

\* -------------------------------------------------- APIManager, directly
\* the settings the user may have saved
StoredSettings == [apiProvider : ApiProviders, endpoint : Endpoints, apiKey : ApiKeys]

SettingsStorage(app_settings) ==
  [chat_sessions |-> Null, active_model |-> Null, app_settings |-> app_settings]

\* APIManager keeps nothing between its calls, so the calls made first from
\* each store are all there is to see of it.
\* the record kept of the last APIManager call: the call, its arguments,
\* where it ran, what the network did to its request if it made one, and
\* how it ended
APICall(op, args, env, net, r) ==
  [op |-> op, args |-> args, env |-> env,
   net |-> IF r.requests > 0 THEN Some(net) ELSE Null,
   raised |-> r.raised, error |-> r.error, value |-> r.value, requests |-> r.requests]

InitAPI ==
  /\ variant = "features"
  /\ now = 1
  /\ storage \in {SettingsStorage(Null)}
                  \cup {SettingsStorage(Some(JSONstringify(settings))) :
                          settings \in StoredSettings}
  /\ state = InitialState
  /\ sends = <<>>
  /\ mounted = FALSE
  /\ last = [op |-> "none", args |-> Null, env |-> [OS |-> "web", protocol |-> "http:"],
             net |-> Null, raised |-> FALSE, error |-> <<>>, value |-> Null,
             requests |-> 0]
  /\ reader = NoReader

GetProviders ==
  /\ last.op = "none"
  /\ \E env \in Environments, net \in Nets :
       last' = APICall("getProviders", Null, env, net, getProviders(storage, env, net))
  /\ UNCHANGED <<variant, now, storage, state, sends, mounted, reader>>

APISendMessage ==
  /\ last.op = "none"
  /\ \E env \in Environments, net \in Nets :
       last' = APICall("sendMessage", Null, env, net,
                       APIManager_sendMessage(storage, env, net))
  /\ UNCHANGED <<variant, now, storage, state, sends, mounted, reader>>

APISendMessageStream ==
  /\ last.op = "none"
  /\ \E env \in Environments, net \in Nets :
       last' = APICall("sendMessageStream", Null, env, net,
                       APIManager_sendMessageStream(storage, env, net))
  /\ UNCHANGED <<variant, now, storage, state, sends, mounted, reader>>

TestConnection ==
  /\ last.op = "none"
  /\ \E provider \in ApiProviders, endpoint \in Endpoints,
        apiKey \in {Null} \cup {Some(k) : k \in ApiKeys},
        env \in Environments, net \in Nets :
       last' = APICall("testConnection",
                       Some([provider |-> provider, endpoint |-> endpoint, apiKey |-> apiKey]),
                       env, net, testConnection(provider, endpoint, apiKey, env, net))
  /\ UNCHANGED <<variant, now, storage, state, sends, mounted, reader>>

NextAPI ==
  \/ GetProviders
  \/ APISendMessage
  \/ APISendMessageStream
  \/ TestConnection

SpecAPI == InitAPI /\ [][NextAPI]_vars

\* ----------------------------------------------- the NDJSON decode loop
\* lines a provider may send: objects with a response, an object without,
\* a truncated object, a blank line, an empty line
LineTexts ==
  {<<"{", v, "}">> : v \in ResponseValues} \cup {<<"{", "}">>, <<"{", "a">>, <<" ">>, <<>>}

RECURSIVE join(_)
join(lines) ==
  IF lines = <<>> THEN <<>>
  ELSE IF Len(lines) = 1 THEN Head(lines)
  ELSE Head(lines) \o <<Newline>> \o join(Tail(lines))

\* up to MaxLines lines, the last one ended by a newline or not
Bodies ==
  UNION {{join(lines), join(lines) \o <<Newline>>} :
           lines \in UNION {[1..n -> LineTexts] : n \in 0..MaxLines}}

InitStream ==
  /\ variant = "features"
  /\ now = 1
  /\ storage = EmptyStorage
  /\ state = InitialState
  /\ sends = <<>>
  /\ mounted = FALSE
  /\ last = NoCall
  /\ reader \in {Reader(body) : body \in Bodies}

\* what the network may do to the request of a streamed send; the body of
\* a response is then read as a stream
StreamNets == {net \in Nets : net.kind = "response" => net.response.json = Null}

OllamaConfig == [provider |-> "ollama", endpoint |-> DefaultEndpoint, apiKey |-> Null]

\* the request is answered, or fails: the generator throws or enters the loop
StreamOpens ==
  /\ reader.net = Null
  /\ \E env \in Environments, net \in StreamNets :
       LET r == openOllamaMessageStream(OllamaConfig, env, net) IN
       reader' = [reader EXCEPT !.net = Some(net), !.opened = ~r.raised,
                                !.raised = r.raised]
  /\ UNCHANGED <<variant, now, storage, state, sends, mounted, last>>

\* reader.read() returns the next characters of the body, however many
ReaderRead ==
  /\ reader.opened /\ ~reader.raised
  /\ ~reader.done
  /\ \E k \in 1..Len(reader.body) :
       reader' = [readChunk(reader, SubSeq(reader.body, 1, k))
                    EXCEPT !.body = SubSeq(reader.body, k + 1, Len(reader.body))]
  /\ UNCHANGED <<variant, now, storage, state, sends, mounted, last>>

\* reader.read() returns done: break
ReaderDone ==
  /\ reader.opened /\ ~reader.raised
  /\ ~reader.done
  /\ reader.body = <<>>
  /\ reader' = [reader EXCEPT !.done = TRUE]
  /\ UNCHANGED <<variant, now, storage, state, sends, mounted, last>>

\* reader.read() rejects (the connection is lost): the generator throws
ReaderFails ==
  /\ reader.opened /\ ~reader.raised
  /\ ~reader.done
  /\ reader' = [reader EXCEPT !.raised = TRUE]
  /\ UNCHANGED <<variant, now, storage, state, sends, mounted, last>>

NextStream ==
  \/ StreamOpens
  \/ ReaderRead
  \/ ReaderFails
  \/ ReaderDone

SpecStream == InitStream /\ [][NextStream]_vars

\* --------------------------------------------------------------- claims
\* the persisted session collection, as getChatSessions returns it
persisted == getChatSessions(storage)

ActiveCount(sessions) == Cardinality({i \in 1..Len(sessions) : sessions[i].isActive})

\* C1: once a createNewChat or switchToChat call has settled, the persisted
\* collection holds at most one session with isActive = true.
C1_AtMostOneActivePersisted ==
  last.op \in {"createNewChat", "switchToChat"} => ActiveCount(persisted) <= 1

\* C2: a createNewChat step taken with an active model, at a time whose id
\* no session has yet, leaves the new session at the head of the persisted collection, active, with no
\* messages and the title "New Chat", and leaves every session persisted
\* before the call in the collection with isActive = false.
C2_NewChatPersistedAtHead ==
  [][(/\ CreateNewChat
      /\ state.activeModel # Null
      /\ find(state.chatSessions, now) = Null
      /\ find(getChatSessions(storage), now) = Null) =>
       LET before == getChatSessions(storage)
           after == getChatSessions(storage')
       IN /\ Len(after) >= 1
          /\ after[1] = Get(state'.currentSession)
          /\ after[1].isActive
          /\ after[1].messages = <<>>
          /\ after[1].title = NewChatTitle
          /\ \A i \in 1..Len(before) :
               \E j \in 2..Len(after) :
                 after[j].id = before[i].id /\ ~after[j].isActive]_vars

\* C3: once switchToChat(id) has settled for an id among the current
\* sessions, the session with that id is persisted with isActive = true and
\* every other persisted session has isActive = false.
C3_SwitchPersistsExactlyOneActive ==
  (last.op = "switchToChat" /\ find(state.chatSessions, last.arg) # Null) =>
    /\ \E i \in 1..Len(persisted) : persisted[i].id = last.arg
    /\ \A i \in 1..Len(persisted) : persisted[i].isActive <=> (persisted[i].id = last.arg)

\* C4: a switchToChat(id) step with an id that is not among the current
\* sessions changes neither the session list, nor the current session, nor
\* the persisted collection, and does not raise.
C4_SwitchUnknownIdChangesNothing ==
  [][\A sessionId \in SessionIds :
       (SwitchToChatId(sessionId) /\ find(state.chatSessions, sessionId) = Null) =>
         /\ state'.chatSessions = state.chatSessions
         /\ state'.currentSession = state.currentSession
         /\ getChatSessions(storage') = getChatSessions(storage)
         /\ ~last'.raised]_vars

\* C5: a sendMessage or sendMessageStream call made while an earlier send
\* has not settled is ignored, also when it is made from the render that
\* made the earlier call: a call passes the gate only when no other send
\* awaits the provider.
C5_LaterSendIgnored ==
  (last.op \in {"sendMessage", "sendMessageStream", "sendAgain"} /\ last.accepted) =>
    Len(sends) = 1

\* C6: a sendMessage or sendMessageStream step taken with an active model
\* and a connection but no current session creates a session and goes on
\* to send in it: the call passes the gate and its send, in a new session,
\* holds the user message with the text.
SendsWithoutSession(text) ==
  /\ state.activeModel # Null
  /\ state.isConnected
  /\ ~state.isLoading
  /\ state.currentSession = Null
  /\ \/ Settle(sendStart(variant, "blocking", state, World, now, text),
               "sendMessage", 0, text, Null, <<>>)
     \/ Settle(sendStart(variant, "stream", state, World, now, text),
               "sendMessageStream", 0, text, Null, <<>>)

C6_SendCreatesSessionAndProceeds ==
  [][\A text \in Texts :
       SendsWithoutSession(text) =>
         /\ last'.accepted
         /\ Len(sends') = Len(sends) + 1
         /\ state'.currentSession # Null
         /\ LET send == Last(sends') IN
            /\ send.updatedSession.id = Get(state'.currentSession).id
            /\ Len(send.updatedSession.messages) = 1
            /\ send.updatedSession.messages[1].sender = "user"
            /\ send.updatedSession.messages[1].text = text]_vars

\* the message list and the persisted message list of the session a send
\* that has settled was made in
SettledSession == Get(last.send).updatedSession

CurrentMessages == Get(state.currentSession).messages

PersistedMessages(sessionId) == Get(find(persisted, sessionId)).messages

\* C7: once a send whose provider call failed has settled, the current
\* session's message list, and the persisted one, is the list as it was
\* after the user turn was appended followed by exactly one assistant
\* message with error = true.
C7_ErrorTurnFollowsUserTurn ==
  last.op = "rejected" =>
    /\ state.currentSession # Null
    /\ find(persisted, SettledSession.id) # Null
    /\ LET afterUserTurn == SettledSession.messages IN
       /\ Len(CurrentMessages) = Len(afterUserTurn) + 1
       /\ SubSeq(CurrentMessages, 1, Len(afterUserTurn)) = afterUserTurn
       /\ Last(CurrentMessages).sender = "assistant"
       /\ Last(CurrentMessages).error
       /\ PersistedMessages(SettledSession.id) = CurrentMessages

C9_RegenerateReplacesAnswer ==
  (last.op = "resolved" /\ Get(last.send).regenerated > 0) =>
    LET messages == Get(Get(last.send).closure.currentSession).messages
        messageIndex == Get(last.send).regenerated
        preceding == SubSeq(messages, 1, messageIndex - 1)
    IN /\ state.currentSession # Null
       /\ Len(CurrentMessages) = Len(preceding) + 1
       /\ SubSeq(CurrentMessages, 1, Len(preceding)) = preceding
       /\ Last(CurrentMessages).sender = "assistant"
       /\ Last(CurrentMessages).id # messages[messageIndex].id

\* C10: a regenerateResponse(messageId) step where messageId is the id of
\* the first message of the current session changes nothing and calls no
\* send.
C10_RegenerateFirstMessageIsNoOp ==
  [][\A messageId \in MessageIds :
       (/\ RegenerateResponseId(messageId)
        /\ state.currentSession # Null
        /\ Len(Get(state.currentSession).messages) >= 1
        /\ Get(state.currentSession).messages[1].id = messageId) =>
         /\ state' = state
         /\ storage' = storage
         /\ sends' = sends
         /\ ~last'.invoked]_vars

\* regenerateResponse was called, with an active model and a connection, on
\* the first message of a session that holds a user turn and its answer
C10_Witness ==
  /\ last.op = "regenerateResponse"
  /\ ~last.invoked
  /\ state.activeModel # Null
  /\ state.isConnected
  /\ state.currentSession # Null
  /\ Len(CurrentMessages) >= 2
  /\ CurrentMessages[1].id = last.arg
  /\ CurrentMessages[1].sender = "user"

\* C11: a sendMessage or sendMessageStream step taken with no active model
\* or no successful connection raises and changes nothing: the hook values
\* (current session, session list, isLoading), the store and the sends
\* awaiting the provider are as before.
SendsWithoutConnection(text) ==
  /\ state.activeModel = Null \/ ~state.isConnected
  /\ \/ Settle(sendStart(variant, "blocking", state, World, now, text),
               "sendMessage", 0, text, Null, <<>>)
     \/ Settle(sendStart(variant, "stream", state, World, now, text),
               "sendMessageStream", 0, text, Null, <<>>)

C11_NoConnectionRaisesBeforeMutation ==
  [][\A text \in Texts :
       SendsWithoutConnection(text) =>
         /\ last'.raised
         /\ state' = state
         /\ storage' = storage
         /\ sends' = sends]_vars

\* a send was refused for want of a connection in a session that holds
\* messages
C11_Witness ==
  /\ last.op \in {"sendMessage", "sendMessageStream"}
  /\ last.raised
  /\ state.activeModel # Null
  /\ ~state.isConnected
  /\ state.currentSession # Null
  /\ Len(CurrentMessages) >= 2

\* C12: once a send has settled with the provider's response, a title given
\* to its session by an updateChatTitle call that settled while the send
\* awaited the provider is the title of the session in the session list,
\* in the current session and in the persisted record.
C12_TitleSurvivesSend ==
  (last.op = "resolved" /\ Get(last.send).retitled # Null) =>
    LET title == Get(Get(last.send).retitled)
        sessionId == SettledSession.id
    IN /\ find(state.chatSessions, sessionId) # Null
       /\ Get(find(state.chatSessions, sessionId)).title = title
       /\ state.currentSession # Null
       /\ Get(state.currentSession).title = title
       /\ find(persisted, sessionId) # Null
       /\ Get(find(persisted, sessionId)).title = title

C14_SaveTwiceIsSaveOnce ==
  [][\A session \in StoreSessions :
       (/\ last.op = "saveChatSession"
        /\ last.arg = session
        /\ SaveChatSessionOf(session)) =>
         LET after == getChatSessions(storage') IN
         /\ after = getChatSessions(storage)
         /\ Cardinality({i \in 1..Len(after) : after[i].id = session.id}) = 1]_vars

\* the same session was saved twice in a row into a collection that holds
\* other sessions
C14_Witness ==
  /\ last.op = "saveChatSession"
  /\ last.repeated
  /\ Len(persisted) >= 2

\* C15: a saveChatSession(s) step puts s at the head and leaves the sessions
\* persisted before in their order behind it when none of them has the id
\* of s; otherwise it puts s where the session with that id was and leaves
\* the length and every other session as they were.
C15_SaveIsUpsertById ==
  [][\A session \in StoreSessions :
       (last'.op = "saveChatSession" /\ SaveChatSessionOf(session)) =>
         LET before == getChatSessions(storage)
             after == getChatSessions(storage')
             existingIndex == findIndex(before, session.id)
         IN IF existingIndex = 0
              THEN after = <<session>> \o before
              ELSE /\ Len(after) = Len(before)
                   /\ after[existingIndex] = session
                   /\ \A i \in 1..Len(before) :
                        i # existingIndex => after[i] = before[i]]_vars

\* a session that was persisted behind the head was saved again
C15_Witness ==
  /\ last.op = "saveChatSession"
  /\ last.found = 1
  /\ findIndex(persisted, last.arg.id) >= 2

\* C16: after saveChatSession(s), getChatSessions returns a session with
\* the id of s that equals s in every field, its createdAt, updatedAt and
\* message timestamps denoting the instants they denote in s.
C16_SaveThenGetReturnsSession ==
  last.op = "saveChatSession" =>
    /\ find(persisted, last.arg.id) # Null
    /\ Get(find(persisted, last.arg.id)) = last.arg

\* a session with a message, made and updated at different instants, was
\* saved
C16_Witness ==
  /\ last.op = "saveChatSession"
  /\ Len(last.arg.messages) = 1
  /\ last.arg.updatedAt # last.arg.createdAt
  /\ Len(persisted) >= 2

\* the store after deleteChatSession for each id of the sequence in turn
RECURSIVE deleteEach(_, _)
deleteEach(ls, sessionIds) ==
  IF sessionIds = <<>> THEN ls
  ELSE deleteEach(deleteChatSession(ls, Head(sessionIds)), Tail(sessionIds))

\* the set of ids in every order
RECURSIVE Orders(_)
Orders(ids) ==
  IF ids = {} THEN {<<>>}
  ELSE UNION {{<<id>> \o order : order \in Orders(ids \ {id})} : id \in ids}

\* C17: a deleteMultipleChatSessions(ids) step leaves the persisted
\* collection that deleteChatSession called once for each id leaves, the
\* ids taken in any order, and writes the store once.
C17_DeleteMultipleIsRepeatedDelete ==
  [][\A sessionIds \in SUBSET StoreIds :
       (last'.op = "deleteMultipleChatSessions" /\ DeleteMultipleChatSessionsOf(sessionIds)) =>
         /\ \A order \in Orders(sessionIds) :
              getChatSessions(storage') = getChatSessions(deleteEach(storage, order))
         /\ storage'.writes = 1]_vars

\* two ids were deleted in one call, one of them the id of one of the two
\* persisted sessions
C17_Witness ==
  /\ last.op = "deleteMultipleChatSessions"
  /\ Cardinality(last.arg) = 2
  /\ last.length = 2
  /\ last.found = 1
  /\ Len(persisted) = 1

\* a parsed item that is a session record: it has the required properties
\* of ChatSession, its dates written as ISO strings
WellFormedRecord(item) ==
  /\ {"id", "title", "messages", "model", "createdAt", "updatedAt"} \subseteq DOMAIN item
  /\ item.createdAt.json = "string"
  /\ item.updatedAt.json = "string"

\* C18: with the chat_sessions entry absent, unparsable, or not an array of
\* session records, getChatSessions returns the empty list; and every
\* session it returns has a boolean isActive.
C18_CorruptStoreReadsEmpty ==
  LET sessionsData == getItem(storage, "chat_sessions") IN
  /\ (\/ sessionsData = Null
      \/ ~Get(sessionsData).ok
      \/ ~Get(sessionsData).array
      \/ \E i \in 1..Len(Get(sessionsData).val) :
           ~WellFormedRecord(Get(sessionsData).val[i])) => persisted = <<>>
  /\ \A i \in 1..Len(persisted) : persisted[i].isActive \in BOOLEAN

UniqueIds(sessions) ==
  \A i, j \in 1..Len(sessions) : sessions[i].id = sessions[j].id => i = j

\* C19: once a createNewChat call has settled, no two sessions of the
\* session list and no two sessions of the persisted collection have the
\* same id.
C19_SessionIdsUnique ==
  last.op = "createNewChat" => UniqueIds(state.chatSessions) /\ UniqueIds(persisted)

\* C20: once the decode loop has ended, the chunks it yielded are, in
\* order, the response values of the lines of the body that are JSON
\* objects with a string response (a value is one character, so the
\* sequences are equal exactly when their concatenations are): lines that
\* do not parse or have no such property are skipped, and no line of the
\* body is left out, the last one included.
C20_YieldsEveryResponseLine ==
  reader.done => reader.yielded = yields(split(reader.sent))

\* the settings the APIManager call of this state ran with, and whether it
\* was one of the calls that read them
settings == getSettings(storage)
ReadsSettings == last.op \in {"getProviders", "sendMessage", "sendMessageStream"}

Hosted == {"openai", "anthropic"}
BlankKeys == {"", " "}
NotHttpUrls == {"ftp://h", "http://", "h"}
HttpPrefixed == {DefaultEndpoint, "http://"}
HttpsPage == [OS |-> "web", protocol |-> "https:"]

\* the endpoint is rejected before the key is looked at, where it runs in env
EndpointRejected(endpoint, env) ==
  endpoint \in NotHttpUrls \/ (env = HttpsPage /\ endpoint \in HttpPrefixed)

C24_EndpointErrorsBeforeNetwork ==
  /\ settings.endpoint \in NotHttpUrls
       => /\ \A env \in Environments :
               createAPIConfig(settings, env) = Throw(InvalidEndpointURL(settings.endpoint), 0)
          /\ ReadsSettings
               => /\ last.raised /\ last.requests = 0
                  /\ InvalidEndpointURL(settings.endpoint) \in {last.error, Tail(last.error)}
  /\ settings.endpoint \in HttpPrefixed \ NotHttpUrls
       => /\ createAPIConfig(settings, HttpsPage) = Throw(MIXED_CONTENT_ERROR, 0)
          /\ ReadsSettings /\ last.env = HttpsPage
               => /\ last.raised /\ last.requests = 0
                  /\ MIXED_CONTENT_ERROR \in {last.error, Tail(last.error)}
  /\ last.op = "testConnection"
       => LET args == Get(last.args) IN
          /\ args.endpoint \in NotHttpUrls
               => /\ last.requests = 0
                  /\ Get(last.value) = Failure(InvalidEndpointURLFormat)
          /\ args.endpoint \in HttpPrefixed \ NotHttpUrls /\ last.env = HttpsPage
               => /\ last.requests = 0
                  /\ Get(last.value) = Failure(MIXED_CONTENT_ERROR)

\* all three faults at once: the endpoint error is the one raised
C24_Witness ==
  /\ last.op = "getProviders"
  /\ settings = [apiProvider |-> "anthropic", endpoint |-> "http://", apiKey |-> ""]
  /\ last.env = HttpsPage
  /\ last.requests = 0
  /\ last.error = InvalidEndpointURL("http://")

\* the response the network gave to the call of this state, if it gave one
Responded == last.net # Null /\ Get(last.net).kind = "response"
response == Get(last.net).response

\* C25: a blocking send whose response has a 5xx status raises the
\* server-unavailable error ("Server temporarily unavailable ..."),
\* whichever 5xx status it is and whichever provider is configured.
C25_ServerErrorIsServerUnavailable ==
  last.op = "sendMessage" /\ Responded /\ response.status \in 500..599
    => last.raised /\ last.error = ServerTemporarilyUnavailable

\* the class of an error: the one of the five the catch block of
\* sendMessage names, or none
Unclassified == <<"Unclassified">>
category(error) ==
  IF error \in {InvalidApiKey, RateLimitExceeded, QuotaExceeded,
                NetworkConnectionFailed, ServerTemporarilyUnavailable}
    THEN error ELSE Unclassified

\* the failures the classification is about: a timeout, a transport
\* failure, a response of status 401, 429 or 5xx
ClassifiedFailure(net) ==
  \/ net.kind \in {"abort", "TypeError"}
  \/ net.kind = "response" /\ net.response.status \in {401, 429} \cup 500..599

\* C26: a streaming send that fails raises an error of the same class as
\* the blocking send raises from the same settings, in the same place, on
\* the same failure of the network.
C26_StreamingClassifiesAsBlocking ==
  last.op = "sendMessageStream" /\ last.net # Null /\ ClassifiedFailure(Get(last.net))
    => /\ last.raised
       /\ APIManager_sendMessage(storage, last.env, Get(last.net)).raised
       /\ category(last.error)
            = category(APIManager_sendMessage(storage, last.env, Get(last.net)).error)

\* the 2xx body is JSON but has not the text the provider's reply holds:
\* response for ollama, choices[0].message.content for openai,
\* content[0].text for anthropic, the array missing or empty included
LacksExpectedFields(provider, data) ==
  IF provider = "ollama" THEN data.text = Null
  ELSE data.items # "one" \/ data.text = Null

\* C27: a blocking send whose response is 2xx with a body that lacks the
\* expected fields returns "No response received" and does not raise,
\* whichever provider is configured.
C27_MissingFieldsIsNoResponse ==
  /\ last.op = "sendMessage" /\ Responded
  /\ response.status \in 200..299 /\ response.json # Null
  /\ LacksExpectedFields(settings.apiProvider, Get(response.json))
  => ~last.raised /\ last.value = Some(NoResponseReceived)

\* the value testConnection resolved to is one of its two forms
ResolvedToResult(r) ==
  /\ ~r.raised
  /\ r.value # Null
  /\ \/ DOMAIN Get(r.value) = {"success", "models"} /\ Get(r.value).success
     \/ DOMAIN Get(r.value) = {"success", "error"} /\ ~Get(r.value).success

\* C29, as stated: testConnection does not raise, resolves to
\* {success: true, models} or {success: false, error}, leaves the store
\* (settings, sessions, active model) as it was, and for anthropic succeeds
\* exactly when the endpoint is an http or https URL and the key starts
\* with "sk-ant-".
C29_TestConnectionAnthropicByEndpointAndKey ==
  [][last'.op = "testConnection"
       => /\ ResolvedToResult(last')
          /\ storage' = storage
          /\ Get(last'.args).provider = "anthropic"
               => (Get(last'.value).success
                     <=> /\ Get(last'.args).endpoint \notin NotHttpUrls
                         /\ Get(last'.args).apiKey = Some("sk-ant-1"))]_vars

\* C29, amended: testConnection does not raise, resolves to one of the two
\* forms and leaves the store as it was; for anthropic it succeeds exactly
\* when the endpoint is an http or https URL, is not an http:// endpoint
\* in a page served over https, and the key starts with "sk-ant-".
C29_TestConnectionNeverRaisesNoEffects ==
  [][last'.op = "testConnection"
       => /\ ResolvedToResult(last')
          /\ storage' = storage
          /\ Get(last'.args).provider = "anthropic"
               => (Get(last'.value).success
                     <=> /\ Get(last'.args).endpoint \notin NotHttpUrls
                         /\ ~(last'.env = HttpsPage /\ Get(last'.args).endpoint \in HttpPrefixed)
                         /\ Get(last'.args).apiKey = Some("sk-ant-1"))]_vars

C29_Witness ==
  /\ last.op = "testConnection"
  /\ Get(last.args) = [provider |-> "anthropic", endpoint |-> DefaultEndpoint,
                        apiKey |-> Some("sk-ant-1")]
  /\ last.env = [OS |-> "web", protocol |-> "http:"]
  /\ last.value = Some(Success(getAnthropicModels))
  /\ last.requests = 0

\* what the decode loop has read of the body, and the lines of it that are
\* complete (ended by a newline)
received == SubSeq(reader.sent, 1, Len(reader.sent) - Len(reader.body))
completeLines(chars) == SubSeq(split(chars), 1, Len(split(chars)) - 1)

\* the request of the streamed send failed, or its response is not 2xx
RequestRefused(net) ==
  net.kind \in {"abort", "TypeError"} \/ net.response.status \notin 200..299

\* C21: a streamed send whose request fails or whose response is not 2xx
\* throws without entering the decode loop, no chunk yielded; once the
\* generator has thrown, at the request or at a later read, the chunks it
\* has yielded are those of the complete lines read before, and it yields
\* no more (nothing follows a throw).
C21_StreamErrorYieldsOnlyCompleteLines ==
  /\ reader.net # Null /\ RequestRefused(Get(reader.net))
       => reader.raised /\ ~reader.opened /\ reader.yielded = <<>>
  /\ reader.raised
       => /\ reader.yielded = yields(completeLines(received))
          /\ ~ENABLED NextStream

\* the connection is lost after a complete line and a part of the next
C21_Witness ==
  /\ reader.raised
  /\ reader.opened
  /\ reader.yielded = <<"a">>
  /\ reader.buffer = <<"{", "b">>
  /\ reader.body # <<>>

\* the body with its last line ended by a newline too
terminated(chars) ==
  IF chars = <<>> \/ Last(chars) = Newline THEN chars ELSE chars \o <<Newline>>

\* what the decode loop yields when it gets chars in one read
oneRead(chars) == readChunk(Reader(chars), chars).yielded

\* C30: however the body was split into reads, also inside a line, and
\* whether or not its last line ends with a newline, the decode loop has
\* yielded at its end the chunks it yields for the same body delivered in
\* one read with every line ended by a newline.
C30_DecodeIndependentOfReads ==
  reader.done => reader.yielded = oneRead(terminated(reader.sent))

\* a streaming send is in flight
Streaming(inFlight) == \E i \in 1..Len(inFlight) : inFlight[i].kind = "stream"

\* C22: streamingMessage is non-null only while a streaming send is in
\* flight; a token of the stream changes the text the send has accumulated
\* and streamingMessage, which then holds that text, and no message list,
\* in chatSessions, in currentSession or in the store; and when a
\* streaming send settles, by its end or by an error, streamingMessage is
\* null.
C22_StreamTextOnlyInStreamingMessage ==
  [][/\ state'.streamingMessage # Null => Streaming(sends')
     /\ (Len(sends') = Len(sends) /\ sends' # sends)
          => /\ state'.chatSessions = state.chatSessions
             /\ state'.currentSession = state.currentSession
             /\ storage' = storage
             /\ \E i \in 1..Len(sends') :
                  /\ sends'[i].responseText # sends[i].responseText
                  /\ state'.streamingMessage = Some(sends'[i].responseText)
     /\ (Len(sends') < Len(sends) /\ Get(last'.send).kind = "stream")
          => state'.streamingMessage = Null]_vars

\* a token has arrived and the send has not settled
C22_Witness ==
  \E i \in 1..Len(sends) :
    /\ sends[i].kind = "stream"
    /\ sends[i].responseText # <<>>
    /\ state.streamingMessage = Some(sends[i].responseText)
    /\ Last(Get(state.currentSession).messages).sender = "user"

\* the first four words of a text, and "..." after them when there are more
FirstFourWords(words) ==
  IF Len(words) > 4 THEN SubSeq(words, 1, 4) \o <<"...">> ELSE words

\* C28: once a send has settled, with the provider's response or with an
\* error, the title of its session, in the current session and in the
\* persisted record, is the first four words of the text (with "..." iff
\* the text has more) when the session had no message before the send, and
\* the title the session had before the send otherwise.
C28_TitleFromFirstMessageIsKept ==
  last.op \in {"resolved", "rejected"} =>
    LET before == Get(Get(last.send).closure.currentSession)
        title == IF Len(before.messages) = 0 THEN FirstFourWords(last.text)
                 ELSE before.title
    IN /\ state.currentSession # Null
       /\ Get(state.currentSession).title = title
       /\ find(persisted, before.id) # Null
       /\ Get(find(persisted, before.id)).title = title

\* the message of the current session that regenerateResponse(messageId)
\* locates is not an assistant message, or is not directly after a user
\* message
NotRegenerable(messageId) ==
  /\ state.currentSession # Null
  /\ LET messages == Get(state.currentSession).messages
         messageIndex == findIndex(messages, messageId)
     IN /\ messageIndex > 0
        /\ \/ messages[messageIndex].sender # "assistant"
           \/ messageIndex = 1
           \/ messages[messageIndex - 1].sender # "user"

C33_CurrentIsTheActivePersisted ==
  state.currentSession # Null =>
    LET id == Get(state.currentSession).id IN
    /\ \E i \in 1..Len(persisted) : persisted[i].id = id /\ persisted[i].isActive
    /\ \A i \in 1..Len(persisted) : persisted[i].isActive => persisted[i].id = id

\* C34: a deleted session stays deleted: when deleteChat(id) has settled
\* while a send made in session id awaits its provider, then once that send
\* settles neither the persisted collection nor the session list in memory
\* has a session with that id.
C34_DeletedSessionStaysDeleted ==
  [][\A i \in 1..Len(sends) :
       LET id == sends[i].updatedSession.id IN
       (/\ last.op = "deleteChat"
        /\ last.arg = id
        /\ last'.op \in {"resolved", "rejected"}
        /\ last'.arg = i)
         => /\ find(getChatSessions(storage'), id) = Null
            /\ find(state'.chatSessions, id) = Null]_vars

\* the sessions deleteChat(sessionId) leaves in the list
remainingSessions(sessionId) == SelectSeq(state.chatSessions, LAMBDA s : s.id # sessionId)

\* deleteChat(sessionId) is called for the current session
DeletesCurrent(sessionId) ==
  state.currentSession # Null /\ Get(state.currentSession).id = sessionId

\* C35: once deleteChat(id) has settled: if id was the current session and
\* other sessions remain, the first of them is the current session and the
\* only session persisted with isActive = true; if none remains the current
\* session is null; if id was not the current session, the current session
\* is unchanged.
C35_DeleteChatMovesCurrent ==
  [][\A sessionId \in DeleteSessionIds :
       DeleteChatId(sessionId) =>
         IF DeletesCurrent(sessionId)
           THEN IF Len(remainingSessions(sessionId)) > 0
                  THEN LET first == remainingSessions(sessionId)[1]
                           stored == getChatSessions(storage')
                       IN /\ state'.currentSession # Null
                          /\ Get(state'.currentSession).id = first.id
                          /\ \E i \in 1..Len(stored) : stored[i].id = first.id
                          /\ \A i \in 1..Len(stored) :
                               stored[i].isActive <=> (stored[i].id = first.id)
                  ELSE state'.currentSession = Null
           ELSE state'.currentSession = state.currentSession]_vars

\* how often the text is the content of a turn of the payload
occurrences(payload, text) ==
  Cardinality({k \in DOMAIN payload : payload[k].content = text})

\* the turns of the payload that stand for messages: all but the system
\* message and the open last line of the prompt
messageTurns(provider, payload) ==
  IF provider = "ollama" THEN SubSeq(payload, 1, Len(payload) - 1)
  ELSE IF provider = "openai" THEN Tail(payload)
  ELSE payload

\* C36: the history handed to the provider is the message list of the
\* session before the new user turn, so that the payload has the outgoing
\* text exactly once, as its last user turn, after at most the last 10
\* (local provider) or 20 (hosted providers) earlier messages in their order.
C36_OutgoingTextOnceInPayload ==
  \A i \in 1..Len(sends), provider \in ApiProviders :
    LET send == sends[i]
        prior == Get(send.closure.currentSession).messages
        payload == requestTurns(provider, send.text, send.history)
        turns == messageTurns(provider, payload)
        limit == IF provider = "ollama" THEN 10 ELSE 20
        earlier == slice(prior, limit)
    IN /\ send.history = prior
       /\ occurrences(payload, send.text) = 1
       /\ Last(turns).content = send.text
       /\ Len(turns) = Len(earlier) + 1
       /\ \A k \in 1..Len(earlier) : turns[k].content = earlier[k].text

\* a provider with at least one model is loaded
ModelLoaded == Len(state.providers) > 0 /\ Len(state.providers[1].models) > 0

\* C37: createNewChat called with no active model succeeds when a provider
\* with a model is loaded: the first model of the first provider becomes the
\* active model and the new session is created with that model's name; with
\* no provider model it raises and creates no session.
C37_NewChatDefaultsActiveModel ==
  [][(CreateNewChat /\ state.activeModel = Null) =>
       IF ModelLoaded
         THEN LET model == state.providers[1].models[1] IN
              /\ ~last'.raised
              /\ state'.activeModel # Null
              /\ Get(state'.activeModel).id = model.id
              /\ Len(state'.chatSessions) = Len(state.chatSessions) + 1
              /\ state'.currentSession # Null
              /\ Get(state'.currentSession).model = model.name
         ELSE /\ last'.raised
              /\ state'.chatSessions = state.chatSessions
              /\ state'.currentSession = state.currentSession
              /\ storage' = storage]_vars

====
